---- MODULE Spec2Model ----
(***************************************************************************)
(* Model of the relational-result automapper (package mapper):            *)
(* ScanOne / ScanMany, the row materializer mapToStruct/mapRelationships,  *)
(* the value coercion engine setFieldValue, the metadata analyzer          *)
(* analyzeEntity and the metadata registry.                                *)
(*                                                                         *)
(* Conventions                                                             *)
(*  - a reflect.Type is a record with a field "kind";                      *)
(*  - a struct value is the tuple of its field values, a nil pointer and a *)
(*    nil slice are <<>>, a non-nil pointer is <<pointee>>, a slice is the *)
(*    sequence of its elements;                                            *)
(*  - instances reached through pointers that the scan keeps (the caller's *)
(*    destination, reflect.New instances, identity-map entries) live in    *)
(*    "heap", a sequence indexed by address;                               *)
(*  - Go field indices are 0-based, the tuples here are 1-based.           *)
(***************************************************************************)
EXTENDS Integers, Sequences, FiniteSets, TLC

\* Largest number of rows the row source yields in one scan.
MaxRows == 3

\* Number of goroutines that call the registry concurrently.
MaxProcs == 3
\* Number of goroutines that scan concurrently
MaxScans == 3
\* Largest number of nested calls of analyzeEntity, and of mapToStruct, that
\* are followed.
MaxDepth == 4

\* Largest number of rows of a scan that is made a second time.
MaxReplay == 2

----------------------------------------------------------------------------
(* Values that a row, or an interface{} handed to setFieldValue, can hold *)

NULL == [k |-> "null", v |-> 0]
IntV(n) == [k |-> "int", v |-> n]
StrV(s) == [k |-> "str", v |-> s]
UintV(n) == [k |-> "uint", v |-> n]
BoolV(b) == [k |-> "bool", v |-> b]
\* a float64, held as its number of tenths
FloatV(tenths) == [k |-> "float", v |-> tenths]
\* a non-nil pointer to the struct of type t stored at heap address a
PtrV(a, t) == [k |-> "ptr", v |-> a, t |-> t]
\* a struct value of type t
StructV(s, t) == [k |-> "struct", v |-> s, t |-> t]

----------------------------------------------------------------------------
(* Types and the struct declarations used by the scans *)

\* reflect.TypeOf(nil): no type
NilType == [kind |-> "invalid"]
UintT == [kind |-> "uint"]
StringT == [kind |-> "string"]
IntT == [kind |-> "int"]
BoolT == [kind |-> "bool"]
FloatT == [kind |-> "float"]
StructT(n) == [kind |-> "struct", name |-> n]
PtrT(e) == [kind |-> "ptr", elem |-> e]
SliceT(e) == [kind |-> "slice", elem |-> e]

FieldDecl(n, t, pk, db, rel) ==
  [name |-> n, type |-> t, primaryKey |-> pk, db |-> db, relationship |-> rel]

userT == StructT("user")
\* time.Time, with its fields reduced to one
TimeT == StructT("Time")

OrgFields(relName, relType, relTag) ==
  << FieldDecl("OrgId", UintT, "org_id", "", ""),
     FieldDecl("OrgName", StringT, "", "org_name", ""),
     FieldDecl(relName, relType, "", "", relTag) >>

\* currentType.Field(index) for index in 1..NumField
Fields(t) ==
  CASE t.name = "user" ->
         << FieldDecl("UserId", UintT, "user_id", "", ""),
            FieldDecl("Name", StringT, "", "user_name", "") >>
    [] t.name = "OrgWithUser" -> OrgFields("User", userT, "oneToOne")
    [] t.name = "OrgWithUserPointer" -> OrgFields("User", PtrT(userT), "oneToOne")
    [] t.name = "OrgWithManyUsers" -> OrgFields("Users", SliceT(userT), "oneToMany")
    [] t.name = "OrgWithUsersSlicePointer" ->
         OrgFields("Users", PtrT(SliceT(userT)), "oneToMany")
    [] t.name = "Time" -> << FieldDecl("wall", UintT, "", "", "") >>
    [] t.name = "userTwoKeys" ->
         << FieldDecl("UserId", UintT, "user_id", "", ""),
            FieldDecl("Name", StringT, "user_name", "", "") >>
    [] t.name = "OrgWithTwoKeys" ->
         OrgFields("User", StructT("userTwoKeys"), "oneToOne")
    [] t.name = "item" ->
         << FieldDecl("ItemId", UintT, "item_id", "", ""),
            FieldDecl("Name", StringT, "", "item_name", "") >>
    [] t.name = "userWithItems" ->
         << FieldDecl("UserId", UintT, "user_id", "", ""),
            FieldDecl("Name", StringT, "", "user_name", ""),
            FieldDecl("Items", SliceT(StructT("item")), "", "", "oneToMany") >>
    [] t.name = "OrgWithUserItems" ->
         OrgFields("Users", SliceT(StructT("userWithItems")), "oneToMany")
    [] t.name = "OrgWithUserPointers" -> OrgFields("Users", SliceT(PtrT(userT)), "oneToMany")
    [] t.name = "OrgWithSubOrgs" ->
         OrgFields("SubOrgs", SliceT(StructT("OrgWithSubOrgs")), "oneToMany")
    [] t.name = "OrgWithParent" ->
         OrgFields("Parent", PtrT(StructT("OrgWithParent")), "oneToOne")
    [] t.name = "OrgWithSubOrgPointers" ->
         OrgFields("SubOrgs", SliceT(PtrT(StructT("OrgWithSubOrgPointers"))), "oneToMany")
    [] t.name = "OrgWithMembers" ->
         OrgFields("Members", SliceT(StructT("member")), "oneToMany")
    [] t.name = "member" ->
         << FieldDecl("UserId", UintT, "user_id", "", ""),
            FieldDecl("Name", StringT, "", "user_name", ""),
            FieldDecl("Org", PtrT(StructT("OrgWithMembers")), "", "", "oneToOne") >>

NumField(t) == Len(Fields(t))

RootTypes ==
  { userT, StructT("OrgWithUser"), StructT("OrgWithUserPointer"),
    StructT("OrgWithManyUsers"), StructT("OrgWithUsersSlicePointer") }

\* struct types whose relationship fields lead back to the type itself,
\* directly or through a second type
CyclicTypes ==
  { StructT("OrgWithSubOrgs"), StructT("OrgWithParent"),
    StructT("OrgWithSubOrgPointers"), StructT("OrgWithMembers"), StructT("member") }

\* struct types that break the rule of one primary-key field, directly or
\* through a relationship field
SchemaErrorTypes == { StructT("userTwoKeys"), StructT("OrgWithTwoKeys") }

DeReferencePointer(t) == IF t.kind = "ptr" THEN t.elem ELSE t

\* the zero value of a type (reflect.Zero / reflect.New(t).Elem())
RECURSIVE Zero(_)
Zero(t) ==
  CASE t.kind \in {"uint", "int", "float"} -> 0
    [] t.kind = "string" -> ""
    [] t.kind = "bool" -> FALSE
    [] t.kind = "struct" -> [i \in 1..NumField(t) |-> Zero(Fields(t)[i].type)]
    [] t.kind = "ptr" -> <<>>
    [] t.kind = "slice" -> <<>>

\* reflect.Value.IsZero of a value of type t
IsZero(t, val) == val = Zero(t)

----------------------------------------------------------------------------
(* Metadata registry and analyzer *)

\* the nil *MappingInfo stored as cycle guard
NilInfo == [nil |-> TRUE]
\* the nil *PrimaryKeyInfo of a type without primary-key field
NilKey == [nil |-> TRUE]

EmptyMap == [x \in {} |-> 0]
MapSet(m, key, val) == [x \in DOMAIN m \cup {key} |-> IF x = key THEN val ELSE m[x]]

GetEntityGraphMappingInfo(reg, key) ==
  IF key \in DOMAIN reg THEN [info |-> reg[key], exists |-> TRUE]
  ELSE [info |-> NilInfo, exists |-> FALSE]

\* Store that keeps the value of a key that is present
SetEntityGraphMappingInfo_Once(reg, key, value) ==
  IF key \in DOMAIN reg THEN reg ELSE MapSet(reg, key, value)

SetEntityGraphMappingInfo(reg, key, value) == MapSet(reg, key, value)

RECURSIVE analyzeEntity(_, _)
RECURSIVE analyzeFields(_, _, _, _)

\* analyzeEntity after the recursive analyzeEntity(elementType) of the
\* relationship field at position index returned r
analyzeRelationship(t, index, acc, r) ==
  IF r.err # "" THEN [err |-> r.err, acc |-> acc, reg |-> r.reg]
  ELSE analyzeFields(t, index + 1,
         [acc EXCEPT !.Relationships = MapSet(@, index, Fields(t)[index].type)], r.reg)

\* the element type analyzeEntity recurses into for a relationship field
elementTypeOf(ftype) ==
  IF DeReferencePointer(ftype).kind = "slice"
  THEN DeReferencePointer(ftype).elem ELSE DeReferencePointer(ftype)

\* the field loop of analyzeEntity from position index on; acc holds
\* keyField, fieldMapping and relationships built so far
analyzeFields(t, index, acc, reg) ==
  IF index > NumField(t) THEN [err |-> "", acc |-> acc, reg |-> reg]
  ELSE
    LET field == Fields(t)[index] IN
    IF field.primaryKey # "" THEN
      IF acc.KeyField = NilKey
      THEN analyzeFields(t, index + 1,
             [acc EXCEPT !.FieldMapping = MapSet(@, field.primaryKey, index),
                         !.KeyField = [dbPrimaryKeyName |-> field.primaryKey,
                                       structPrimaryKeyFieldName |-> field.name]],
             reg)
      ELSE [err |-> "multiple primary key fields found", acc |-> acc, reg |-> reg]
    ELSE IF field.relationship # "" THEN
      analyzeRelationship(t, index, acc,
                          analyzeEntity(elementTypeOf(field.type), reg))
    ELSE IF field.db # "" THEN
      analyzeFields(t, index + 1,
        [acc EXCEPT !.FieldMapping = MapSet(@, field.db, index)], reg)
    ELSE analyzeFields(t, index + 1, acc, reg)

\* the end of analyzeEntity: r is what the field loop returned
completeAnalysis(t, r) ==
  IF r.err # "" THEN [err |-> r.err, reg |-> r.reg]
  ELSE [err |-> "", reg |-> SetEntityGraphMappingInfo(r.reg, t, r.acc)]

analyzeEntity(currentType, reg) ==
  IF GetEntityGraphMappingInfo(reg, currentType).exists THEN [err |-> "", reg |-> reg]
  ELSE IF DeReferencePointer(currentType).kind # "struct"
  \* currentType.NumField() panics after the dummy value was set; the panic
  \* leaves analyzeEntityGraphs the way its own panic(err) does
  THEN [err |-> "reflect: NumField of non-struct type",
        reg |-> SetEntityGraphMappingInfo(reg, DeReferencePointer(currentType), NilInfo)]
  ELSE completeAnalysis(DeReferencePointer(currentType),
         analyzeFields(DeReferencePointer(currentType), 1,
           [KeyField |-> NilKey, FieldMapping |-> EmptyMap, Relationships |-> EmptyMap],
           \* set dummy value to avoid infinite recursion
           SetEntityGraphMappingInfo(reg, DeReferencePointer(currentType), NilInfo)))

----------------------------------------------------------------------------
(* Value coercion engine *)

CoerceOk(val) == [err |-> "", panic |-> FALSE, val |-> val]
CoerceErr(msg, cur) == [err |-> msg, panic |-> FALSE, val |-> cur]
CoercePanic(msg, cur) == [err |-> msg, panic |-> TRUE, val |-> cur]

\* the %T of a source value
TypeName(v) ==
  CASE v.k = "int" -> "int"
    [] v.k = "str" -> "string"
    [] v.k = "uint" -> "uint"
    [] v.k = "bool" -> "bool"
    [] v.k = "float" -> "float64"
    [] v.k = "struct" -> "mapper." \o v.t.name
    [] v.k = "ptr" -> "*mapper." \o v.t.name
    [] OTHER -> "<nil>"

setStringField(cur, v) ==
  IF v.k = "str" THEN CoerceOk(v.v)
  ELSE CoerceErr("type mismatch: expected string, got " \o TypeName(v), cur)

setBoolField(cur, v) ==
  IF v.k = "bool" THEN CoerceOk(v.v)
  ELSE CoerceErr("type mismatch: expected bool, got " \o TypeName(v), cur)

\* int64(f) of a float64 held in tenths: truncation toward zero
Truncate(tenths) == IF tenths >= 0 THEN tenths \div 10 ELSE -((-tenths) \div 10)

setIntField(cur, v) ==
  IF v.k = "int" THEN CoerceOk(v.v)
  ELSE IF v.k = "float" THEN CoerceOk(Truncate(v.v))
  ELSE CoerceErr("type mismatch: expected int64, got " \o TypeName(v), cur)

setFloatField(cur, v) ==
  IF v.k = "float" THEN CoerceOk(v.v)
  ELSE IF v.k = "int" THEN CoerceOk(v.v * 10)
  ELSE CoerceErr("type mismatch: expected float64, got " \o TypeName(v), cur)

\* setUintField that takes unsigned sources only
setUintField_UintOnly(cur, v) ==
  IF v.k = "uint" THEN CoerceOk(v.v)
  ELSE CoerceErr("type mismatch: expected uint or uint64, got " \o TypeName(v), cur)

setUintField(cur, v) ==
  IF v.k = "int"
  THEN IF v.v < 0
       THEN CoerceErr("cannot assign negative value " \o ToString(v.v)
                        \o " to uint field", cur)
       ELSE CoerceOk(v.v)
  ELSE IF v.k = "uint" THEN CoerceOk(v.v)
  ELSE CoerceErr("type mismatch: expected uint or uint64, got " \o TypeName(v), cur)

\* reflect.ValueOf(nil) is the zero Value: v.Type() panics on it
ZeroValuePanic(cur) ==
  CoercePanic("reflect: call of reflect.Value.Type on zero Value", cur)

\* a time.Time field takes a time.Time only; another struct field takes an
\* assignable value: v.Type().AssignableTo(field.Type()) ||
\* v.Elem().Type()...: when the first test fails v.Elem() is evaluated, which
\* panics for a value that is not a pointer (pointers were dereferenced by
\* setFieldValue)
setStructField(ftype, cur, v) ==
  IF v.k = "null" THEN ZeroValuePanic(cur)
  ELSE IF ftype = TimeT
  THEN IF v.k = "struct" /\ v.t = TimeT THEN CoerceOk(v.v)
       ELSE CoerceErr("type mismatch: expected time.Time, got " \o TypeName(v), cur)
  ELSE IF v.k = "struct" /\ v.t = ftype THEN CoerceOk(v.v)
  ELSE CoercePanic("reflect: call of reflect.Value.Elem on " \o v.k \o " Value", cur)

\* setSliceField that starts a new slice with the value instead of appending
setSliceField_Reinit(ftype, cur, v) ==
  IF v.k = "struct" /\ v.t = ftype.elem THEN CoerceOk(<< v.v >>)
  ELSE CoerceErr("cannot assign or convert " \o TypeName(v), cur)

\* single-value branch (no source value of the model is a slice); the
\* element types of the model are structs, to which no scalar converts
setSliceField(ftype, cur, v) ==
  IF v.k = "null" THEN ZeroValuePanic(cur)
  ELSE IF v.k = "struct" /\ v.t = ftype.elem THEN CoerceOk(Append(cur, v.v))
  ELSE CoerceErr("cannot assign or convert " \o TypeName(v), cur)

RECURSIVE setFieldValue(_, _, _, _)

\* the pointer field holds a pointer to what the recursive call left in
\* field.Elem()
pointerTo(r) == [r EXCEPT !.val = << r.val >>]

setPointerField(ftype, cur, v, heap) ==
  \* a nil field is set to reflect.New before v.Interface() panics
  IF v.k = "null"
  THEN CoercePanic("reflect: call of reflect.Value.Interface on zero Value",
                   IF cur = <<>> THEN << Zero(ftype.elem) >> ELSE cur)
  ELSE pointerTo(setFieldValue(ftype.elem,
                               IF cur = <<>> THEN Zero(ftype.elem) ELSE cur[1], v, heap))

\* field has type ftype and holds cur; the result holds the new field content
setFieldValue(ftype, cur, value, heap) ==
  LET v == IF ftype.kind # "ptr" /\ value.k = "ptr"
           THEN StructV(heap[value.v], value.t) ELSE value
  IN CASE ftype.kind = "int" -> setIntField(cur, v)
       [] ftype.kind = "uint" -> setUintField(cur, v)
       [] ftype.kind = "string" -> setStringField(cur, v)
       [] ftype.kind = "bool" -> setBoolField(cur, v)
       [] ftype.kind = "float" -> setFloatField(cur, v)
       [] ftype.kind = "struct" -> setStructField(ftype, cur, v)
       [] ftype.kind = "slice" -> setSliceField(ftype, cur, v)
       [] ftype.kind = "ptr" -> setPointerField(ftype, cur, v, heap)
       [] OTHER -> CoerceErr("unsupported field type: " \o ftype.kind, cur)

----------------------------------------------------------------------------
(* reflect_utils *)

\* IsStruct without the pointer case
IsStruct_ValueOnly(ftype, val) == ftype.kind = "struct"

\* IsStruct of a field of type ftype holding val
IsStruct(ftype, val) ==
  \/ ftype.kind = "struct"
  \/ ftype.kind = "ptr" /\ val # <<>> /\ ftype.elem.kind = "struct"

\* reflect.Indirect(field).IsZero() for a field for which IsStruct holds
IndirectIsZero(ftype, val) ==
  IF ftype.kind = "ptr" THEN IsZero(ftype.elem, val[1]) ELSE IsZero(ftype, val)

\* only value.IsValid(), without the test for a non-zero field
IsStructPointerWithNonZeroFields_ValidOnly(t, addr, heap) == addr # 0

\* v is a pointer to the struct of type t stored at heap[addr]; addr = 0 is
\* the invalid reflect.Value
IsStructPointerWithNonZeroFields(t, addr, heap) ==
  /\ addr # 0
  /\ t.kind = "struct"
  /\ \E i \in 1..NumField(t) : ~IsZero(Fields(t)[i].type, heap[addr][i])

----------------------------------------------------------------------------
(* Row materializer *)

\* Go leaves the iteration order of a map unspecified: a loop over a map
\* visits the keys ordered by rank, or in the reverse of that order
RECURSIVE OrderedBy(_, _)
OrderedBy(S, rank) ==
  IF S = {} THEN <<>>
  ELSE LET x == CHOOSE x \in S : \A y \in S : rank[x] <= rank[y]
       IN << x >> \o OrderedBy(S \ {x}, rank)

Reverse(s) == [i \in 1..Len(s) |-> s[Len(s) + 1 - i]]

MapRange(m, rev) ==
  LET asc == OrderedBy(DOMAIN m, m) IN IF rev THEN Reverse(asc) ELSE asc

KeyRange(m, rev) ==
  LET asc == OrderedBy(DOMAIN m, [i \in DOMAIN m |-> i])
  IN IF rev THEN Reverse(asc) ELSE asc

\* values[columnName] of a Go map: nil for a column the row does not have
ColumnValue(values, columnName) ==
  IF columnName \in DOMAIN values THEN values[columnName] ELSE NULL

MatResult(st, obj, exists, err, panic) ==
  [st |-> st, obj |-> obj, exists |-> exists, err |-> err, panic |-> panic]

RECURSIVE populateFields(_, _, _, _, _, _)

\* mapToStruct after setFieldValue returned r for the column Head(cols)
populateField(t, info, values, cols, heap, addr, r) ==
  LET heap1 == [heap EXCEPT ![addr][info.FieldMapping[Head(cols)]] = r.val] IN
  IF r.err # ""
  THEN [err |-> IF r.panic THEN r.err
                ELSE "failed to map column " \o Head(cols) \o ": " \o r.err,
        panic |-> r.panic, heap |-> heap1]
  ELSE populateFields(t, info, values, Tail(cols), heap1, addr)

\* the loop over entityMappingInfo.FieldMapping of mapToStruct, over the
\* columns cols still to visit, writing the struct at heap[addr]
populateFields(t, info, values, cols, heap, addr) ==
  IF cols = <<>> THEN [err |-> "", panic |-> FALSE, heap |-> heap]
  ELSE
    LET columnName == Head(cols)
        structIndex == info.FieldMapping[columnName]
        dbValue == ColumnValue(values, columnName)
    IN IF dbValue = NULL
       THEN populateFields(t, info, values, Tail(cols), heap, addr)
       ELSE populateField(t, info, values, cols, heap, addr,
              setFieldValue(Fields(t)[structIndex].type, heap[addr][structIndex],
                            dbValue, heap))

\* lookup[entityType] is created when missing
ensureLookup(lkp, entityType) ==
  IF entityType \in DOMAIN lkp THEN lkp ELSE MapSet(lkp, entityType, EmptyMap)

\* analyzeEntityGraphs that returns the error instead of panicking
afterAnalysis_ReturnsError(a, entityType) ==
  IF a.err # ""
  THEN [reg |-> a.reg, info |-> NilInfo, err |-> a.err, panic |-> FALSE]
  ELSE [reg |-> a.reg, info |-> GetEntityGraphMappingInfo(a.reg, entityType).info,
        err |-> "", panic |-> FALSE]

\* mapToStruct after analyzeEntityGraphs: a is what analyzeEntity returned
afterAnalysis(a, entityType) ==
  IF a.err # ""
  THEN [reg |-> a.reg, info |-> NilInfo, err |-> a.err, panic |-> TRUE]
  ELSE IF GetEntityGraphMappingInfo(a.reg, entityType).info = NilInfo
  THEN [reg |-> a.reg, info |-> NilInfo,
        err |-> "no mapping info found for entity", panic |-> FALSE]
  ELSE [reg |-> a.reg, info |-> GetEntityGraphMappingInfo(a.reg, entityType).info,
        err |-> "", panic |-> FALSE]

\* the descriptor mapToStruct works with, analysing the type when it is
\* not registered
mappingInfoFor(reg, entityType) ==
  IF GetEntityGraphMappingInfo(reg, entityType).exists
  THEN [reg |-> reg, info |-> GetEntityGraphMappingInfo(reg, entityType).info,
        err |-> "", panic |-> FALSE]
  ELSE afterAnalysis(analyzeEntity(entityType, reg), entityType)

RECURSIVE mapToStruct(_, _, _, _, _)
RECURSIVE mapRelationships(_, _, _, _, _, _, _)

\* the fatal error of the Go runtime when a goroutine exceeds its stack: no
\* deferred call runs and no recover catches it
StackOverflow == "fatal error: stack overflow"

\* the result r of a call of mapToStruct, back in the caller at depth
returned(r, depth) == [r EXCEPT !.st.depth = depth]

\* the end of mapToStruct: m is what mapRelationships returned
storeEntity(entityType, keyValue, entityExists, obj, m) ==
  IF m.err # "" THEN MatResult(m.st, 0, FALSE, m.err, m.panic)
  ELSE MatResult([m.st EXCEPT !.lookup[entityType] = MapSet(@, keyValue, obj)],
                 obj, entityExists, "", FALSE)

\* mapToStruct after the field loop, which returned p (no error and the
\* heap as it was when the entity existed)
mapPopulated(entityType, info, values, st, keyValue, entityExists, obj, p, rev) ==
  IF p.err # "" THEN MatResult([st EXCEPT !.heap = p.heap], 0, FALSE, p.err, p.panic)
  ELSE storeEntity(entityType, keyValue, entityExists, obj,
         mapRelationships(entityType, info, values, [st EXCEPT !.heap = p.heap], obj,
                          KeyRange(info.Relationships, rev), rev))

\* mapToStruct that populates dest for the first key of a type only
mapKeyed_KeepFirst(entityType, info, values, st, keyValue, dest, rev) ==
  LET entityExists == st.lookup[entityType] # EmptyMap
      obj == IF keyValue \in DOMAIN st.lookup[entityType]
             THEN st.lookup[entityType][keyValue] ELSE dest
  IN mapPopulated(entityType, info, values, st, keyValue, entityExists, obj,
       IF entityExists THEN [err |-> "", panic |-> FALSE, heap |-> st.heap]
       ELSE populateFields(entityType, info, values,
                           MapRange(info.FieldMapping, rev), st.heap, obj),
       rev)

\* mapToStruct from the lookup of keyValue in the identity map on
mapKeyed(entityType, info, values, st, keyValue, dest, rev) ==
  LET entityExists == keyValue \in DOMAIN st.lookup[entityType]
      obj == IF entityExists THEN st.lookup[entityType][keyValue] ELSE dest
  IN mapPopulated(entityType, info, values, st, keyValue, entityExists, obj,
       IF entityExists THEN [err |-> "", panic |-> FALSE, heap |-> st.heap]
       ELSE populateFields(entityType, info, values,
                           MapRange(info.FieldMapping, rev), st.heap, obj),
       rev)

\* keyValueExists that is false for a null key as well
keyValueExists_NotNull(values, name) == name \in DOMAIN values /\ values[name] # NULL

\* keyValue, keyValueExists := values[name]
keyValueExists(values, name) == name \in DOMAIN values

\* mapToStruct once the descriptor is known: mi is what mappingInfoFor returned
mapWithInfo(entityType, values, st, mi, dest, rev) ==
  IF mi.err # "" THEN MatResult(st, 0, FALSE, mi.err, mi.panic)
  ELSE IF mi.info = NilInfo \/ mi.info.KeyField = NilKey
  THEN MatResult(st, 0, FALSE, "invalid memory address or nil pointer dereference", TRUE)
  ELSE IF ~keyValueExists(values, mi.info.KeyField.dbPrimaryKeyName)
  THEN MatResult(st, 0, FALSE, "no key field found in values", FALSE)
  ELSE mapKeyed(entityType, mi.info, values, st,
                values[mi.info.KeyField.dbPrimaryKeyName], dest, rev)

\* st = [heap, lookup, reg, depth]; dest and the returned obj are heap
\* addresses, obj = 0 is the invalid reflect.Value{}; rev picks the map
\* iteration order; depth is the number of calls of mapToStruct in progress
mapToStruct(entityType, values, st, dest, rev) ==
  mapWithInfo(entityType, values,
    [heap |-> st.heap, lookup |-> ensureLookup(st.lookup, entityType),
     reg |-> mappingInfoFor(st.reg, entityType).reg, depth |-> st.depth],
    mappingInfoFor(st.reg, entityType), dest, rev)

\* the type of the entity a relationship field of type ftype relates to
relationshipEntityTypeOf(ftype) ==
  IF DeReferencePointer(ftype).kind = "slice"
  THEN DeReferencePointer(ftype).elem ELSE DeReferencePointer(ftype)

\* mapRelationships after setFieldValue returned s for the field Head(idxs)
relationshipSet(t, info, values, st, obj, idxs, rev, s) ==
  IF s.err # ""
  THEN [st |-> [st EXCEPT !.heap[obj][Head(idxs)] = s.val], err |-> s.err,
        panic |-> s.panic]
  ELSE mapRelationships(t, info, values, [st EXCEPT !.heap[obj][Head(idxs)] = s.val],
                        obj, Tail(idxs), rev)

\* mapRelationships after mapToStruct returned r for the field Head(idxs)
relationshipMapped(t, info, values, obj, idxs, rev, r) ==
  LET fieldIndex == Head(idxs)
      ftype == info.Relationships[fieldIndex]
      relationshipEntityType == relationshipEntityTypeOf(ftype)
  IN IF r.err # "" THEN [st |-> r.st, err |-> r.err, panic |-> r.panic]
     ELSE IF r.obj # 0
             /\ IsStructPointerWithNonZeroFields(relationshipEntityType, r.obj, r.st.heap)
     THEN IF /\ IsStruct(ftype, r.st.heap[obj][fieldIndex])
             /\ ~IndirectIsZero(ftype, r.st.heap[obj][fieldIndex])
          THEN [st |-> r.st,
                err |-> "Too many rows for entity(name=mapper."
                          \o relationshipEntityType.name \o ")",
                panic |-> FALSE]
          ELSE relationshipSet(t, info, values, r.st, obj, idxs, rev,
                 setFieldValue(ftype, r.st.heap[obj][fieldIndex],
                               PtrV(r.obj, relationshipEntityType), r.st.heap))
     ELSE mapRelationships(t, info, values, r.st, obj, Tail(idxs), rev)

\* the loop over entityMappingInfo.Relationships, over the field indices idxs
\* still to visit; obj is the address of the struct (of type t) that owns
\* the relationship fields
mapRelationships(t, info, values, st, obj, idxs, rev) ==
  IF idxs = <<>> THEN [st |-> st, err |-> "", panic |-> FALSE]
  \* a recursion that goes deeper than MaxDepth calls is one that does not
  \* return: the goroutine runs out of stack
  ELSE IF st.depth >= MaxDepth THEN [st |-> st, err |-> StackOverflow, panic |-> TRUE]
  ELSE relationshipMapped(t, info, values, obj, idxs, rev,
         \* reflect.New(relationshipEntityType) is the address Len(heap) + 1
         returned(
           mapToStruct(relationshipEntityTypeOf(info.Relationships[Head(idxs)]), values,
             [st EXCEPT !.heap =
                Append(@, Zero(relationshipEntityTypeOf(info.Relationships[Head(idxs)]))),
                        !.depth = @ + 1],
             Len(st.heap) + 1, rev),
           st.depth))

----------------------------------------------------------------------------
(* Row source: the rows a query can yield *)

\* (org_id, org_name) of a row
RootParts ==
  { << IntV(1), StrV("a") >>, << IntV(2), StrV("b") >>, << IntV(1), NULL >>,
    << NULL, NULL >>, << IntV(-1), StrV("a") >>, << IntV(-1), IntV(7) >> }

\* (user_id, user_name) of a row; all NULL is a left join without match
RelParts ==
  { << NULL, NULL >>, << IntV(1), StrV("x") >>, << IntV(2), StrV("y") >> }

AllColumns == {"org_id", "org_name", "user_id", "user_name"}
UserColumns == {"user_id", "user_name"}

\* the columns of a join over three levels: root, child, grandchild
ChainColumns == AllColumns \cup {"item_id", "item_name"}

\* root -> one-to-many child -> one-to-many grandchild
ChainRoot == StructT("OrgWithUserItems")

\* the column sets of the result sets scanned into a destination of type t
ColumnSets(t) ==
  IF t = ChainRoot THEN { ChainColumns }
  ELSE IF t.kind # "struct" \/ t \in { userT, StructT("userTwoKeys") }
  THEN { UserColumns, {"user_name"} }
  ELSE { AllColumns, AllColumns \ {"user_id"}, AllColumns \ {"org_id"} }

FullRow(rp, lp) ==
  [c \in AllColumns |->
     CASE c = "org_id" -> rp[1] [] c = "org_name" -> rp[2]
       [] c = "user_id" -> lp[1] [] c = "user_name" -> lp[2]]

\* (item_id, item_name) of a row; all NULL is a child without grandchild
ItemParts ==
  { << NULL, NULL >>, << IntV(1), StrV("p") >>, << IntV(2), StrV("q") >> }

\* the rows of the join over three levels
ChainRows ==
  { [c \in ChainColumns |->
       CASE c = "org_id" -> rp[1] [] c = "org_name" -> rp[2]
         [] c = "user_id" -> lp[1] [] c = "user_name" -> lp[2]
         [] c = "item_id" -> ip[1] [] c = "item_name" -> ip[2]] :
      rp \in { << IntV(1), StrV("a") >>, << IntV(2), StrV("b") >> },
      lp \in { << IntV(1), StrV("x") >>, << IntV(2), StrV("y") >> },
      ip \in ItemParts }

\* pgx.RowToMap: the rows of a result set with the given columns
RowsOf(cols) ==
  IF cols = ChainColumns THEN ChainRows
  ELSE { [c \in cols |-> FullRow(rp, lp)[c]] : rp \in RootParts, lp \in RelParts }

----------------------------------------------------------------------------
(* Scan orchestrators *)

VARIABLES
  pc,         \* "call": before the call, "loop": at rows.Next(), "done", "panic",
              \* "fatal": the process died
  op,         \* "ScanOne" or "ScanMany"
  dest,       \* the dest argument: its dynamic type and whether it is nil
  destType,   \* the struct type scanned into (element type for ScanMany)
  columns,    \* the columns of the result set
  rows,       \* the rows read so far
  rowsErr,    \* rows.Err(): the error the row source failed with, "" if none
  heap,       \* heap[DestAddr] is what the caller's dest points to
  lookup,     \* lookupEntity: type -> key value -> address
  registry,   \* globalEntityGraphMappingInfo
  resultMap,  \* ScanMany: key field value -> address
  idOrder,    \* ScanMany: key field values in first-seen order
  err,        \* the returned error ("" is nil), or the panic value
  closed,     \* rows.Close() has run
  prior,      \* the outcome of the call before this one, NoCall if none
  procs,      \* the goroutines that use the registry concurrently
  coercion    \* a call of setFieldValue: its arguments and its outcome

vars == << pc, op, dest, destType, columns, rows, rowsErr, heap, lookup, registry,
           resultMap, idOrder, err, closed, prior, procs, coercion >>

DestAddr == 1

ErrNoRows == "no rows found"

\* what the caller's dest points to before the call: a zero struct for
\* ScanOne, a nil slice for ScanMany
InitialDest(o, t) == IF o = "ScanOne" THEN Zero(t) ELSE Zero(SliceT(t))

\* a dest of the shape the operation asks for
ValidDest(o, t) ==
  [type |-> PtrT(IF o = "ScanOne" THEN t ELSE SliceT(t)), nil |-> FALSE]

\* what is stored behind dest: the pointee of a non-nil pointer, the value
\* itself when dest is not a pointer, nothing for a nil dest
Pointee(d) ==
  IF d.nil THEN NULL
  ELSE IF d.type.kind = "ptr" THEN Zero(d.type.elem) ELSE Zero(d.type)

NoCall == [none |-> TRUE]
NoProcs == << >>
NoCoercion == [none |-> TRUE]

\* the state before a call of op with dest, on a result set with the
\* columns of destType
Start ==
  /\ pc = "call"
  /\ columns \in ColumnSets(destType)
  /\ rows = <<>>
  /\ rowsErr = ""
  /\ heap = << Pointee(dest) >>
  /\ lookup = EmptyMap
  /\ registry = EmptyMap
  /\ resultMap = EmptyMap
  /\ idOrder = <<>>
  /\ err = ""
  /\ closed = FALSE
  /\ prior = NoCall
  /\ procs = NoProcs
  /\ coercion = NoCoercion

Init ==
  /\ op \in {"ScanOne", "ScanMany"}
  /\ destType \in RootTypes \cup SchemaErrorTypes
  /\ dest = ValidDest(op, destType)
  /\ Start

\* the rows the row source can yield next: any row of the result set, or,
\* when the call repeats an earlier one, the next row of that call
RowChoices ==
  IF prior = NoCall THEN RowsOf(columns)
  ELSE IF Len(rows) < Len(prior.rows) THEN { prior.rows[Len(rows) + 1] }
  ELSE {}

\* the row source has no further row
SourceExhausted == IF prior = NoCall THEN TRUE ELSE Len(rows) = Len(prior.rows)

\* the argument checks of ScanOne without the test for a struct
scanOneArgs_NoStructTest(d) ==
  IF d.type = NilType THEN "dest cannot be nil"
  ELSE IF d.type.kind # "ptr" THEN "dest must be a pointer"
  ELSE ""

\* the argument checks of ScanOne
scanOneArgs(d) ==
  IF d.type = NilType THEN "dest cannot be nil"
  ELSE IF d.type.kind # "ptr" THEN "dest must be a pointer"
  ELSE IF DeReferencePointer(d.type).kind # "struct"
  THEN "dest must be a pointer to a struct"
  ELSE ""

\* lookupEntity kept from the call before
makeLookup_Keep(old) == old

\* lookupEntity := make(map[reflect.Type]map[interface{}]reflect.Value)
makeLookup(old) == EmptyMap

\* ScanOne up to the first rows.Next()
ScanOneCall ==
  /\ pc = "call" /\ op = "ScanOne"
  /\ err' = scanOneArgs(dest)
  /\ pc' = IF scanOneArgs(dest) = "" THEN "loop" ELSE "done"
  /\ closed' = (scanOneArgs(dest) # "")
  /\ lookup' = IF scanOneArgs(dest) = "" THEN makeLookup(lookup) ELSE lookup
  /\ UNCHANGED << op, dest, destType, columns, rows, rowsErr, heap, registry,
                  resultMap, idOrder, prior, procs, coercion >>

\* where the scan is after mapToStruct returned r for a row: the process dies
\* of a stack overflow, the goroutine panics, the scan returns the error, or
\* the loop goes on
pcAfterRow(r) ==
  IF r.err = StackOverflow THEN "fatal"
  ELSE IF r.panic THEN "panic" ELSE IF r.err # "" THEN "done" ELSE "loop"

\* one iteration of the loop of ScanOne
ScanOneRow ==
  /\ pc = "loop" /\ op = "ScanOne"
  /\ Len(rows) < MaxRows
  /\ \E rowInMap \in RowChoices, rev \in BOOLEAN :
       \E r \in { mapToStruct(destType, rowInMap,
                    [heap |-> heap, lookup |-> lookup, reg |-> registry, depth |-> 1],
                    DestAddr, rev) } :
          /\ rows' = Append(rows, rowInMap)
          /\ heap' = r.st.heap
          /\ lookup' = r.st.lookup
          /\ registry' = r.st.reg
          /\ err' = r.err
          /\ pc' = pcAfterRow(r)
          /\ closed' = (r.err # "" /\ r.err # StackOverflow)
  /\ UNCHANGED << op, dest, destType, columns, rowsErr, resultMap, idOrder, prior,
                  procs, coercion >>

\* ScanOne without the ErrNoRows test
scanOneResult_Nil(t, d) == ""

\* the return value of ScanOne once the rows are exhausted
scanOneResult(t, d) == IF IsZero(t, d) THEN ErrNoRows ELSE ""

\* the return of ScanOne without the deferred rows.Close()
scanOneReturn_NoClose ==
  /\ err' = scanOneResult(destType, heap[DestAddr])
  /\ pc' = "done"
  /\ UNCHANGED << op, dest, destType, columns, rows, heap, lookup, registry,
                  resultMap, idOrder, prior, procs, coercion, closed >>

\* ScanOne from the rows.Next() that returns false on
scanOneReturn ==
  /\ err' = scanOneResult(destType, heap[DestAddr])
  /\ pc' = "done"
  /\ closed' = TRUE
  /\ UNCHANGED << op, dest, destType, columns, rows, heap, lookup, registry,
                  resultMap, idOrder, prior, procs, coercion >>

\* rows.Next() returns false: the result set is exhausted
ScanOneEnd ==
  /\ pc = "loop" /\ op = "ScanOne"
  /\ SourceExhausted
  /\ scanOneReturn
  /\ UNCHANGED rowsErr

UpstreamError == "upstream: connection lost"
DecodeError == "upstream: cannot decode the row"

\* rows.Next() returns false because the row source failed: rows.Err() is
\* set, and ScanOne goes on as at the end of the result set
ScanOneNextFails ==
  /\ pc = "loop" /\ op = "ScanOne"
  /\ scanOneReturn
  /\ rowsErr' = UpstreamError

\* pgx.RowToMap returns an error
ScanOneDecodeFails ==
  /\ pc = "loop" /\ op = "ScanOne"
  /\ Len(rows) < MaxRows
  /\ rowsErr' = DecodeError
  /\ err' = DecodeError
  /\ pc' = "done"
  /\ closed' = TRUE
  /\ UNCHANGED << op, dest, destType, columns, rows, heap, lookup, registry,
                  resultMap, idOrder, prior, procs, coercion >>

\* the argument checks of ScanMany; destinationValue.Type() panics on the
\* zero Value that Elem() returns for a nil pointer
scanManyArgs(d) ==
  IF d.type = NilType THEN [err |-> "dest cannot be nil", panic |-> FALSE]
  ELSE IF d.type.kind # "ptr" THEN [err |-> "dest must be a pointer", panic |-> FALSE]
  ELSE IF d.nil
  THEN [err |-> "reflect: call of reflect.Value.Type on zero Value", panic |-> TRUE]
  ELSE IF DeReferencePointer(d.type.elem).kind # "slice"
  THEN [err |-> "dest must be a slice", panic |-> FALSE]
  ELSE [err |-> "", panic |-> FALSE]

\* ScanMany up to the first rows.Next()
ScanManyCall ==
  /\ pc = "call" /\ op = "ScanMany"
  /\ resultMap' = EmptyMap
  /\ idOrder' = <<>>
  /\ err' = scanManyArgs(dest).err
  /\ pc' = IF scanManyArgs(dest).panic THEN "panic"
           ELSE IF scanManyArgs(dest).err # "" THEN "done" ELSE "loop"
  /\ closed' = (scanManyArgs(dest).err # "")
  /\ lookup' = IF scanManyArgs(dest).err = "" THEN makeLookup(lookup) ELSE lookup
  /\ UNCHANGED << op, dest, destType, columns, rows, rowsErr, heap, registry, prior,
                  procs, coercion >>

\* obj.FieldByName(keyField): the index of the field of that name
FieldByName(t, name) == CHOOSE i \in 1..NumField(t) : Fields(t)[i].name = name

\* Elem as a copy of the struct taken when called
Elem_Copy(h, obj) == [val |-> h[obj]]

\* obj = obj.Elem(): the reflect.Value of the struct that the pointer obj
\* points to; it refers to the struct in place ([addr |-> a]), it is not a
\* copy of it ([val |-> s])
Elem(h, obj) == [addr |-> obj]

\* the struct a reflect.Value refers to or holds
Load(h, rv) == IF "addr" \in DOMAIN rv THEN h[rv.addr] ELSE rv.val

\* firstSeen without the lookup in resultMap
firstSeen_Always(rm, actualValue) == TRUE

\* _, exists := resultMap[actualValue]; !exists
firstSeen(rm, actualValue) == actualValue \notin DOMAIN rm

\* one iteration of the loop of ScanMany
ScanManyRow ==
  /\ pc = "loop" /\ op = "ScanMany"
  /\ Len(rows) < MaxRows
  /\ \E rowInMap \in RowChoices, rev \in BOOLEAN :
       \* newInstance := reflect.New(elType) is the address Len(heap) + 1
       \E r \in { mapToStruct(destType, rowInMap,
                    [heap |-> Append(heap, Zero(destType)), lookup |-> lookup,
                     reg |-> registry, depth |-> 1], Len(heap) + 1, rev) } :
       LET obj == Elem(r.st.heap, r.obj)
           entityMappingInfo == GetEntityGraphMappingInfo(r.st.reg, destType).info
           keyField == entityMappingInfo.KeyField.structPrimaryKeyFieldName
           actualValue == Load(r.st.heap, obj)[FieldByName(destType, keyField)]
       IN /\ rows' = Append(rows, rowInMap)
          /\ heap' = r.st.heap
          /\ lookup' = r.st.lookup
          /\ registry' = r.st.reg
          /\ err' = r.err
          /\ pc' = pcAfterRow(r)
          /\ closed' = (r.err # "" /\ r.err # StackOverflow)
          /\ IF r.err = "" /\ r.obj # 0 /\ firstSeen(resultMap, actualValue)
             THEN /\ idOrder' = Append(idOrder, actualValue)
                  /\ resultMap' = MapSet(resultMap, actualValue, obj)
             ELSE UNCHANGED << idOrder, resultMap >>
  /\ UNCHANGED << op, dest, destType, columns, rowsErr, prior, procs, coercion >>

\* the loop over idOrder: reflect.Append copies the struct each
\* resultMap entry refers to
buildResult(h, rm, order) == [i \in 1..Len(order) |-> Load(h, rm[order[i]])]

\* ScanMany from the rows.Next() that returns false on: the result is built
\* from idOrder and stored
scanManyReturn ==
  /\ heap' = [heap EXCEPT ![DestAddr] = buildResult(heap, resultMap, idOrder)]
  /\ err' = ""
  /\ pc' = "done"
  /\ closed' = TRUE
  /\ UNCHANGED << op, dest, destType, columns, rows, lookup, registry, resultMap,
                  idOrder, prior, procs, coercion >>

\* rows.Next() returns false: the result set is exhausted
ScanManyEnd ==
  /\ pc = "loop" /\ op = "ScanMany"
  /\ SourceExhausted
  /\ scanManyReturn
  /\ UNCHANGED rowsErr

\* rows.Next() returns false because the row source failed: rows.Err() is
\* set, and ScanMany goes on as at the end of the result set
ScanManyNextFails ==
  /\ pc = "loop" /\ op = "ScanMany"
  /\ scanManyReturn
  /\ rowsErr' = UpstreamError

\* pgx.RowToMap returns an error, after newInstance was allocated
ScanManyDecodeFails ==
  /\ pc = "loop" /\ op = "ScanMany"
  /\ Len(rows) < MaxRows
  /\ heap' = Append(heap, Zero(destType))
  /\ rowsErr' = DecodeError
  /\ err' = DecodeError
  /\ pc' = "done"
  /\ closed' = TRUE
  /\ UNCHANGED << op, dest, destType, columns, rows, lookup, registry, resultMap,
                  idOrder, prior, procs, coercion >>

Next ==
  \/ ScanOneCall
  \/ ScanOneRow
  \/ ScanOneEnd
  \/ ScanManyCall
  \/ ScanManyRow
  \/ ScanManyEnd

\* scans of valid destinations over a row source that does not fail
Spec == Init /\ [][Next]_vars

\* destination types with a cycle in their relationship graph (those whose
\* analysis returns), and one without
RecursionTypes ==
  (CyclicTypes \ { StructT("OrgWithSubOrgPointers") }) \cup { StructT("OrgWithManyUsers") }

InitRecursion ==
  /\ op \in {"ScanOne", "ScanMany"}
  /\ destType \in RecursionTypes
  /\ dest = ValidDest(op, destType)
  /\ Start

\* scans into types whose relationship fields lead back to the type
SpecRecursion == InitRecursion /\ [][Next]_vars

InitChain ==
  /\ op \in {"ScanOne", "ScanMany"}
  /\ destType = ChainRoot
  /\ dest = ValidDest(op, destType)
  /\ Start

\* scans of a join over three levels
SpecChain == InitChain /\ [][Next]_vars

\* the struct types scanned into a destination that is used again
ReuseTypes == { userT, StructT("OrgWithUserPointer"), StructT("OrgWithManyUsers") }

\* what the caller's struct holds before ScanOne: the zero value, or a key
\* and a name that an earlier use left in it
HeldValues(t) ==
  { Zero(t), [Zero(t) EXCEPT ![1] = 9, ![2] = "z"] }

\* ScanOne(rows, dest) where *dest is any of HeldValues; dest.held is the
\* value of *dest at the call
InitReuse ==
  /\ op = "ScanOne"
  /\ destType \in ReuseTypes
  /\ \E held \in HeldValues(destType) :
       /\ dest = [type |-> PtrT(destType), nil |-> FALSE, held |-> held]
       /\ heap = << held >>
  /\ pc = "call"
  /\ columns \in ColumnSets(destType)
  /\ rows = <<>>
  /\ rowsErr = ""
  /\ lookup = EmptyMap
  /\ registry = EmptyMap
  /\ resultMap = EmptyMap
  /\ idOrder = <<>>
  /\ err = ""
  /\ closed = FALSE
  /\ prior = NoCall
  /\ procs = NoProcs
  /\ coercion = NoCoercion

NextReuse ==
  \/ ScanOneCall
  \/ ScanOneRow
  \/ ScanOneEnd

\* ScanOne into a destination that may hold values already
SpecReuse == InitReuse /\ [][NextReuse]_vars

InitScanOne ==
  /\ op = "ScanOne"
  /\ destType \in RootTypes
  /\ dest = ValidDest(op, destType)
  /\ Start

\* ScanOne into a zero destination of every root type
SpecScanOne == InitScanOne /\ [][NextReuse]_vars

\* the dest arguments a caller can pass for the struct type t: nil, a struct
\* or slice value, pointers to a struct, to a slice of structs, to a number
\* and to a slice of numbers, and a typed nil pointer to a slice
DestShapes(t) ==
  { [type |-> NilType, nil |-> TRUE],
    [type |-> t, nil |-> FALSE],
    [type |-> SliceT(t), nil |-> FALSE],
    [type |-> PtrT(t), nil |-> FALSE],
    [type |-> PtrT(SliceT(t)), nil |-> FALSE],
    [type |-> PtrT(SliceT(t)), nil |-> TRUE],
    [type |-> PtrT(UintT), nil |-> FALSE],
    [type |-> PtrT(SliceT(UintT)), nil |-> FALSE] }

\* elType of ScanMany, the pointee type of ScanOne
ElementType(o, d, t) ==
  IF o = "ScanMany" /\ d.type.kind = "ptr" /\ d.type.elem.kind = "slice"
  THEN d.type.elem.elem ELSE t

\* the struct types the calls with arbitrary destinations are made for
CallTypes == { userT, StructT("OrgWithUserPointer"), StructT("OrgWithManyUsers") }

InitCalls ==
  /\ op \in {"ScanOne", "ScanMany"}
  /\ \E t \in CallTypes :
       /\ dest \in DestShapes(t)
       /\ destType = ElementType(op, dest, t)
  /\ Start

NextCalls ==
  \/ Next
  \/ ScanOneNextFails
  \/ ScanOneDecodeFails
  \/ ScanManyNextFails
  \/ ScanManyDecodeFails

\* scans of any destination over a row source that can fail
SpecCalls == InitCalls /\ [][NextCalls]_vars

\* the caller keeps the outcome of a call that returned and makes the same
\* call again: same operation and type, a fresh zero destination, a row
\* source that yields the same rows; the registry is the one of the process
ScanAgain ==
  /\ pc = "done" /\ prior = NoCall
  /\ Len(rows) <= MaxReplay
  /\ prior' = [rows |-> rows, err |-> err, result |-> heap[DestAddr],
               registry |-> registry]
  /\ pc' = "call"
  /\ rows' = <<>>
  /\ heap' = [heap EXCEPT ![DestAddr] = Pointee(dest)]
  /\ err' = ""
  /\ closed' = FALSE
  /\ UNCHANGED << op, dest, destType, columns, rowsErr, lookup, registry, resultMap,
                  idOrder, procs, coercion >>

NextTwice ==
  \/ Next
  \/ ScanAgain

InitTwice ==
  /\ op \in {"ScanOne", "ScanMany"}
  /\ destType \in CallTypes
  /\ dest = ValidDest(op, destType)
  /\ Start

\* two calls in sequence of the same scan
SpecTwice == InitTwice /\ [][NextTwice]_vars

\* the root types whose relationship field is declared by value
ByValueTypes == { StructT("OrgWithUser"), StructT("OrgWithManyUsers") }

\* the type with the same fields whose relationship field is declared
\* through a pointer: *user for user, *[]user for []user
PointerForm(t) ==
  IF t = StructT("OrgWithUser") THEN StructT("OrgWithUserPointer")
  ELSE StructT("OrgWithUsersSlicePointer")

\* the caller keeps the outcome of a scan into a by-value type and scans the
\* same rows into the pointer form of the type, with a fresh zero
\* destination, in the same process
ScanPointerForm ==
  /\ pc \in {"done", "panic"} /\ prior = NoCall
  /\ destType \in ByValueTypes
  /\ Len(rows) <= MaxReplay
  /\ prior' = [rows |-> rows, err |-> err, result |-> heap[DestAddr],
               registry |-> registry, pc |-> pc, destType |-> destType]
  /\ destType' = PointerForm(destType)
  /\ dest' = ValidDest(op, PointerForm(destType))
  /\ pc' = "call"
  /\ rows' = <<>>
  /\ heap' = << Pointee(ValidDest(op, PointerForm(destType))) >>
  /\ lookup' = EmptyMap
  /\ resultMap' = EmptyMap
  /\ idOrder' = <<>>
  /\ err' = ""
  /\ closed' = FALSE
  /\ UNCHANGED << op, columns, rowsErr, registry, procs, coercion >>

NextPointer ==
  \/ Next
  \/ ScanPointerForm

InitPointer ==
  /\ op \in {"ScanOne", "ScanMany"}
  /\ destType \in ByValueTypes
  /\ dest = ValidDest(op, destType)
  /\ Start

\* a scan into a type with a by-value relationship field, then the scan of
\* the same rows into its pointer form
SpecPointer == InitPointer /\ [][NextPointer]_vars

\* the kinds of destination field handed to setFieldValue
FieldTypes ==
  { IntT, UintT, StringT, BoolT, FloatT, TimeT, userT, SliceT(userT),
    PtrT(UintT), PtrT(StringT), PtrT(userT) }

\* a value of the field type other than its zero value
Sample(t) ==
  CASE t.kind \in {"int", "uint"} -> 5
    [] t.kind = "float" -> 15
    [] t.kind = "string" -> "s"
    [] t.kind = "bool" -> TRUE
    [] t = TimeT -> << 9 >>
    [] t = userT -> << 2, "y" >>
    [] t = SliceT(userT) -> << << 2, "y" >> >>
    [] t = PtrT(UintT) -> << 5 >>
    [] t = PtrT(StringT) -> << "s" >>
    [] t = PtrT(userT) -> << << 2, "y" >> >>

\* the user that the pointer source value points to
PointedUser == << 1, "x" >>

\* the source values handed to setFieldValue; the pointer points to the
\* user at heap address 1
SourceValues ==
  { NULL, IntV(-1), IntV(3), UintV(2), StrV("a"), BoolV(TRUE), FloatV(25),
    FloatV(-25), StructV(<< 7 >>, TimeT), StructV(PointedUser, userT),
    StructV(Zero(StructT("OrgWithUser")), StructT("OrgWithUser")),
    PtrV(1, userT) }

NoOutcome == [none |-> TRUE]

InitCoerce ==
  /\ pc = "coerce"
  /\ \E ft \in FieldTypes :
       coercion \in [ftype : {ft}, cur : {Zero(ft), Sample(ft)},
                     value : SourceValues, out : {NoOutcome}]
  /\ heap = << PointedUser >>
  /\ op = "setFieldValue" /\ dest = ValidDest("ScanOne", userT) /\ destType = userT
  /\ columns = UserColumns /\ rows = <<>> /\ rowsErr = ""
  /\ lookup = EmptyMap /\ registry = EmptyMap /\ resultMap = EmptyMap
  /\ idOrder = <<>> /\ err = "" /\ closed = FALSE
  /\ prior = NoCall /\ procs = NoProcs

\* one call of setFieldValue on a settable field
SetFieldValue ==
  /\ pc = "coerce"
  /\ coercion' = [coercion EXCEPT
                    !.out = setFieldValue(coercion.ftype, coercion.cur,
                                          coercion.value, heap)]
  /\ pc' = "coerced"
  /\ UNCHANGED << op, dest, destType, columns, rows, rowsErr, heap, lookup, registry,
                  resultMap, idOrder, err, closed, prior, procs >>

NextCoerce == SetFieldValue

\* calls of setFieldValue over field kinds and source values
SpecCoerce == InitCoerce /\ [][NextCoerce]_vars

\* the variables of the scans, which the goroutines below leave alone
scanVars ==
  << pc, op, dest, destType, columns, rows, rowsErr, heap, lookup, resultMap,
     idOrder, err, closed, prior, coercion >>

\* the state of the scan variables while only the registry is in use
Idle(name) ==
  /\ pc = name /\ op = name
  /\ dest = ValidDest("ScanOne", userT) /\ destType = userT
  /\ columns = UserColumns /\ rows = <<>> /\ rowsErr = ""
  /\ heap = << Zero(userT) >> /\ lookup = EmptyMap /\ resultMap = EmptyMap
  /\ idOrder = <<>> /\ err = "" /\ closed = FALSE
  /\ prior = NoCall /\ coercion = NoCoercion

\* the descriptor of the tests of the registry
TestMapping ==
  [KeyField |-> [dbPrimaryKeyName |-> "id", structPrimaryKeyFieldName |-> "Id"],
   FieldMapping |-> MapSet(EmptyMap, "id", 1), Relationships |-> EmptyMap]

RegistryKeys == { userT, StructT("OrgWithUser") }
RegistryValues == { TestMapping, NilInfo }

\* the calls a goroutine can make: Set(key, value) or Get(key); "at" is
\* the rank of its Store among the Stores done, "before" the Set calls that
\* had returned when it was invoked, "started" those that had been invoked
\* when its Load ran
RegistryCalls ==
  [kind : {"Set"}, key : RegistryKeys, value : RegistryValues, pc : {"ready"},
   ret : {NoOutcome}, at : {0}, before : {{}}, started : {{}}]
  \cup
  [kind : {"Get"}, key : RegistryKeys, value : {NilInfo}, pc : {"ready"},
   ret : {NoOutcome}, at : {0}, before : {{}}, started : {{}}]

\* a number per call, to list the goroutines in one order only (they have
\* no identity)
CallRank(c) ==
  (IF c.kind = "Set" THEN 0 ELSE 4) + (IF c.key = userT THEN 0 ELSE 2)
    + (IF c.value = NilInfo THEN 0 ELSE 1)

InitRegistry ==
  /\ procs \in [1..MaxProcs -> RegistryCalls]
  /\ \A i, j \in 1..MaxProcs : i < j => CallRank(procs[i]) <= CallRank(procs[j])
  /\ registry = EmptyMap
  /\ Idle("registry")

\* the Set calls among the goroutines whose pc is in pcs
SetCalls(pcs) == { q \in DOMAIN procs : procs[q].kind = "Set" /\ procs[q].pc \in pcs }

\* a goroutine enters SetEntityGraphMappingInfo or GetEntityGraphMappingInfo
RegistryInvoke(p) ==
  /\ procs[p].pc = "ready"
  /\ procs' = [procs EXCEPT ![p].pc = "called",
                            ![p].before = SetCalls({"returned"})]
  /\ UNCHANGED << registry, scanVars >>

\* globalEntityGraphMappingInfo.Store(key, value)
RegistryStore(p) ==
  /\ procs[p].pc = "called" /\ procs[p].kind = "Set"
  /\ registry' = SetEntityGraphMappingInfo(registry, procs[p].key, procs[p].value)
  /\ procs' = [procs EXCEPT ![p].pc = "done",
                            ![p].at = Cardinality(SetCalls({"done", "returned"})) + 1]
  /\ UNCHANGED scanVars

\* globalEntityGraphMappingInfo.Load(key) and the type assertion
RegistryLoad(p) ==
  /\ procs[p].pc = "called" /\ procs[p].kind = "Get"
  /\ procs' = [procs EXCEPT ![p].pc = "done",
                            ![p].ret = GetEntityGraphMappingInfo(registry, procs[p].key),
                            ![p].started = SetCalls({"called", "done", "returned"})]
  /\ UNCHANGED << registry, scanVars >>

\* the call returns to the goroutine
RegistryReturn(p) ==
  /\ procs[p].pc = "done"
  /\ procs' = [procs EXCEPT ![p].pc = "returned"]
  /\ UNCHANGED << registry, scanVars >>

NextRegistry ==
  \/ \E p \in DOMAIN procs : RegistryInvoke(p)
  \/ \E p \in DOMAIN procs : RegistryStore(p)
  \/ \E p \in DOMAIN procs : RegistryLoad(p)
  \/ \E p \in DOMAIN procs : RegistryReturn(p)

\* goroutines that call Set and Get of the registry concurrently
SpecRegistry == InitRegistry /\ [][NextRegistry]_vars

\* the entity types of the scans that run concurrently
AnalysisTypes == { userT, StructT("OrgWithUser"), StructT("OrgWithTwoKeys") }

\* a call of analyzeEntity(currentType) on the stack of a goroutine: "at" is
\* its position, index the field the loop is at, acc its keyField,
\* fieldMapping and relationships
Frame(currentType) ==
  [t |-> currentType, at |-> "get", index |-> 1,
   acc |-> [KeyField |-> NilKey, FieldMapping |-> EmptyMap, Relationships |-> EmptyMap]]

\* a number per entity type, to list the goroutines in one order only
TypeRank(t) ==
  IF t = userT THEN 0 ELSE IF t = StructT("OrgWithUser") THEN 1 ELSE 2

\* a scan that is about to fetch the descriptor of entityType in mapToStruct,
\* and the entity types "next" the goroutine fetches afterwards
ScanThen(entityType, next) ==
  [entityType |-> entityType, pc |-> "lookup", stack |-> <<>>,
   info |-> NilInfo, err |-> "", next |-> next]

Scan(entityType) == ScanThen(entityType, <<>>)

InitAnalysis ==
  /\ procs \in [1..MaxScans -> { Scan(t) : t \in AnalysisTypes }]
  /\ \A i, j \in 1..MaxScans :
       i < j => TypeRank(procs[i].entityType) <= TypeRank(procs[j].entityType)
  /\ registry = EmptyMap
  /\ Idle("analysis")

RECURSIVE localFields(_, _, _)
\* the field loop of analyzeEntity from position index up to the next
\* relationship field, the end of the fields or the second primary key
localFields(t, index, acc) ==
  IF index > NumField(t) THEN [err |-> "", index |-> index, acc |-> acc]
  ELSE IF Fields(t)[index].primaryKey # "" THEN
    IF acc.KeyField = NilKey
    THEN localFields(t, index + 1,
           [acc EXCEPT !.FieldMapping = MapSet(@, Fields(t)[index].primaryKey, index),
                       !.KeyField = [dbPrimaryKeyName |-> Fields(t)[index].primaryKey,
                                     structPrimaryKeyFieldName |-> Fields(t)[index].name]])
    ELSE [err |-> "multiple primary key fields found", index |-> index, acc |-> acc]
  ELSE IF Fields(t)[index].relationship # "" THEN [err |-> "", index |-> index, acc |-> acc]
  ELSE IF Fields(t)[index].db # ""
    THEN localFields(t, index + 1,
           [acc EXCEPT !.FieldMapping = MapSet(@, Fields(t)[index].db, index)])
  ELSE localFields(t, index + 1, acc)

\* the frame on top of the stack of goroutine p
Top(p) == procs[p].stack[Len(procs[p].stack)]

\* the goroutine after its innermost analyzeEntity returned nil: the caller
\* goes on with its loop, and analyzeEntityGraphs returns to mapToStruct
\* when it was the outermost call
returnNil(g) ==
  [g EXCEPT !.stack = SubSeq(@, 1, Len(@) - 1),
            !.pc = IF Len(g.stack) = 1 THEN "reget" ELSE "analyze"]

\* the goroutine after a panic with message msg
panics(g, msg) == [g EXCEPT !.pc = "panic", !.err = msg]

\* analyzeEntity stops at the relationship field at position r.index and
\* calls analyzeEntity(elementType)
callElement(g, r) ==
  [g EXCEPT !.stack =
     Append([@ EXCEPT ![Len(@)].index = r.index + 1,
                      ![Len(@)].acc =
                        [r.acc EXCEPT !.Relationships =
                           MapSet(@, r.index, Fields(g.stack[Len(g.stack)].t)[r.index].type)]],
            Frame(elementTypeOf(Fields(g.stack[Len(g.stack)].t)[r.index].type)))]

\* mapToStruct: GetEntityGraphMappingInfo(entityType); a nil descriptor
\* that exists is dereferenced for its KeyField
AnalysisLookup(p) ==
  /\ procs[p].pc = "lookup"
  /\ \E r \in { GetEntityGraphMappingInfo(registry, procs[p].entityType) } :
       procs' = [procs EXCEPT ![p] =
         IF ~r.exists THEN [@ EXCEPT !.pc = "analyze",
                                     !.stack = << Frame(procs[p].entityType) >>]
         ELSE IF r.info = NilInfo
           THEN panics(@, "invalid memory address or nil pointer dereference")
         ELSE [@ EXCEPT !.pc = "mapped", !.info = r.info]]
  /\ UNCHANGED << registry, scanVars >>

\* analyzeEntity: return nil when the type is registered, else go on with
\* the dereferenced type
AnalyzeGet(p) ==
  /\ procs[p].pc = "analyze" /\ Top(p).at = "get"
  /\ procs' = [procs EXCEPT ![p] =
       IF GetEntityGraphMappingInfo(registry, Top(p).t).exists THEN returnNil(@)
       ELSE [@ EXCEPT !.stack[Len(@.stack)].at = "dummy",
                      !.stack[Len(@.stack)].t = DeReferencePointer(Top(p).t)]]
  /\ UNCHANGED << registry, scanVars >>

\* analyzeEntity: SetEntityGraphMappingInfo(currentType, nil), then
\* currentType.NumField()
AnalyzeDummy(p) ==
  /\ procs[p].pc = "analyze" /\ Top(p).at = "dummy"
  /\ registry' = SetEntityGraphMappingInfo(registry, Top(p).t, NilInfo)
  /\ procs' = [procs EXCEPT ![p] =
       IF Top(p).t.kind # "struct" THEN panics(@, "reflect: NumField of non-struct type")
       ELSE [@ EXCEPT !.stack[Len(@.stack)].at = "fields"]]
  /\ UNCHANGED scanVars

\* analyzeEntity: the field loop up to the next call of the registry: the
\* recursive analyzeEntity of a relationship field, the final
\* SetEntityGraphMappingInfo(currentType, mappingInfo), or the error that
\* analyzeEntityGraphs turns into a panic
AnalyzeFields(p) ==
  /\ procs[p].pc = "analyze" /\ Top(p).at = "fields"
  /\ \E r \in { localFields(Top(p).t, Top(p).index, Top(p).acc) } :
       IF r.err # ""
       THEN /\ procs' = [procs EXCEPT ![p] = panics(@, r.err)]
            /\ UNCHANGED registry
       ELSE IF r.index > NumField(Top(p).t)
       THEN /\ registry' = SetEntityGraphMappingInfo(registry, Top(p).t, r.acc)
            /\ procs' = [procs EXCEPT ![p] = returnNil(@)]
       ELSE /\ Len(procs[p].stack) < MaxDepth
            /\ procs' = [procs EXCEPT ![p] = callElement(@, r)]
            /\ UNCHANGED registry
  /\ UNCHANGED scanVars

RECURSIVE TypeString(_)
\* the %s of a reflect.Type
TypeString(t) ==
  IF t.kind = "ptr" THEN "*" \o TypeString(t.elem)
  ELSE IF t.kind = "slice" THEN "[]" \o TypeString(t.elem)
  ELSE IF t.kind = "struct" THEN "mapper." \o t.name
  ELSE t.kind

\* mapToStruct after analyzeEntityGraphs returned: the second
\* GetEntityGraphMappingInfo(entityType) and the test for nil
AnalysisReget(p) ==
  /\ procs[p].pc = "reget"
  /\ \E r \in { GetEntityGraphMappingInfo(registry, procs[p].entityType) } :
       procs' = [procs EXCEPT ![p] =
         IF r.info = NilInfo
         THEN [@ EXCEPT !.pc = "error",
                        !.err = "no mapping info found for entity("
                                  \o TypeString(procs[p].entityType) \o ")"]
         ELSE [@ EXCEPT !.pc = "mapped", !.info = r.info]]
  /\ UNCHANGED << registry, scanVars >>

NextAnalysis ==
  \/ \E p \in DOMAIN procs : AnalysisLookup(p)
  \/ \E p \in DOMAIN procs : AnalyzeGet(p)
  \/ \E p \in DOMAIN procs : AnalyzeDummy(p)
  \/ \E p \in DOMAIN procs : AnalyzeFields(p)
  \/ \E p \in DOMAIN procs : AnalysisReget(p)

\* scans of several goroutines that fetch, and build when it is missing, the
\* descriptor of their entity type
SpecAnalysis == InitAnalysis /\ [][NextAnalysis]_vars

\* the entity types mapToStruct is called with: the struct types of the
\* destinations and the pointer types that are the elements of a collection
GraphTypes ==
  RootTypes \cup CyclicTypes
    \cup { StructT("OrgWithTwoKeys"), StructT("OrgWithUserPointers"), PtrT(userT) }

\* one goroutine that fetches the descriptors of two entity types in turn
InitGraph ==
  /\ procs \in { << ScanThen(t, << u >>) >> : t \in GraphTypes, u \in GraphTypes }
  /\ registry = EmptyMap
  /\ Idle("graph")

\* the next call of mapToStruct of the goroutine, once the one before has
\* its descriptor or has returned its error
ScanNext(p) ==
  /\ procs[p].pc \in { "mapped", "error" }
  /\ procs[p].next # <<>>
  /\ procs' = [procs EXCEPT ![p] = ScanThen(Head(procs[p].next), Tail(procs[p].next))]
  /\ UNCHANGED << registry, scanVars >>

NextGraph ==
  \/ NextAnalysis
  \/ \E p \in DOMAIN procs : ScanNext(p)

\* the analysis of every shape of relationship graph, one call after the other
SpecGraph == InitGraph /\ [][NextGraph]_vars

----------------------------------------------------------------------------
(* What the rows say, independently of the scan *)

Dest == heap[DestAddr]
DoneOk == pc = "done" /\ err = ""
TooManyRowsUser == "Too many rows for entity(name=mapper.user)"

KeyIdx(t) == CHOOSE i \in 1..NumField(t) : Fields(t)[i].primaryKey # ""
KeyColumn(t) == Fields(t)[KeyIdx(t)].primaryKey
HasRel(t) == \E i \in 1..NumField(t) : Fields(t)[i].relationship # ""
RelIdx(t) == CHOOSE i \in 1..NumField(t) : Fields(t)[i].relationship # ""
RelFieldType(t) == Fields(t)[RelIdx(t)].type
ToMany(t) == HasRel(t) /\ DeReferencePointer(RelFieldType(t)).kind = "slice"
ToOne(t) == HasRel(t) /\ DeReferencePointer(RelFieldType(t)).kind = "struct"

\* the field value a column value stands for
Plain(t, v) == IF v = NULL THEN Zero(t) ELSE v.v

\* a column value that its field can take
Coercible(t, v) ==
  \/ v = NULL
  \/ t.kind = "uint" /\ v.k = "int" /\ v.v >= 0
  \/ t.kind = "string" /\ v.k = "str"

WellTyped(t, row) ==
  \A i \in 1..NumField(t) :
    LET f == Fields(t)[i]
        c == IF f.primaryKey # "" THEN f.primaryKey ELSE f.db
    IN (c # "" /\ c \in DOMAIN row) => Coercible(f.type, row[c])

\* the struct of type t (without relationships) that a row describes
RowStruct(t, row) ==
  [i \in 1..NumField(t) |->
     LET f == Fields(t)[i]
         c == IF f.primaryKey # "" THEN f.primaryKey ELSE f.db
     IN IF c # "" /\ c \in DOMAIN row THEN Plain(f.type, row[c]) ELSE Zero(f.type)]

RootKey(row) == row[KeyColumn(destType)]
RelKey(row) == row[KeyColumn(userT)]

\* the positions of the rows that are the first to carry their root key
FirstRows == { i \in 1..Len(rows) : \A j \in 1..(i - 1) : RootKey(rows[j]) # RootKey(rows[i]) }

\* the i-th smallest element of a set of numbers
RECURSIVE Sorted(_)
Sorted(S) ==
  IF S = {} THEN <<>>
  ELSE LET m == CHOOSE x \in S : \A y \in S : x <= y IN << m >> \o Sorted(S \ {m})

\* the content of the relationship collection of a struct of type t
Collection(t, s) ==
  IF RelFieldType(t).kind = "ptr"
  THEN IF s[RelIdx(t)] = <<>> THEN <<>> ELSE s[RelIdx(t)][1]
  ELSE s[RelIdx(t)]

----------------------------------------------------------------------------
(* Claims *)

\* C1: a ScanMany that ends without error leaves in dest exactly one element
\* per distinct root key of the rows, in the order of the first rows that
\* carry each key; without rows it succeeds with an empty collection.
C1_ScanManyDedupOrdered ==
  (op = "ScanMany" /\ pc = "done" /\ KeyColumn(destType) \in columns) =>
     /\ rows = <<>> => (err = "" /\ Dest = <<>>)
     /\ err = "" =>
          LET first == Sorted(FirstRows)
          IN /\ Len(Dest) = Len(first)
             /\ \A i \in 1..Len(first) :
                  Dest[i][KeyIdx(destType)]
                    = Plain(UintT, RootKey(rows[first[i]]))

\* C1 witness: three rows, the root key of the first comes back after
\* another root key, and the scan succeeded with two elements
C1_Witness ==
  /\ op = "ScanMany" /\ DoneOk /\ Len(rows) = 3
  /\ RootKey(rows[1]) # RootKey(rows[2])
  /\ RootKey(rows[3]) = RootKey(rows[1])
  /\ Len(Dest) = 2

\* C2: after a successful ScanMany, the one-to-many collection of each
\* element holds the related entity of every row that carries the element's
\* root key, also of rows that come after rows of other roots.
C2_ScanManyFinalMergedState ==
  (op = "ScanMany" /\ DoneOk /\ ToMany(destType)) =>
     \A j \in 1..Len(rows) :
       RelKey(rows[j]) # NULL =>
         \E i \in 1..Len(Dest) :
           /\ Dest[i][KeyIdx(destType)] = Plain(UintT, RootKey(rows[j]))
           /\ \E n \in 1..Len(Collection(destType, Dest[i])) :
                Collection(destType, Dest[i])[n] = RowStruct(userT, rows[j])

\* C2 witness: interleaved fan-out, root 1 gets a second related entity
\* after a row of root 2
C2_Witness ==
  /\ op = "ScanMany" /\ DoneOk /\ ToMany(destType) /\ Len(rows) = 3
  /\ RootKey(rows[1]) = IntV(1) /\ RootKey(rows[2]) = IntV(2)
  /\ RootKey(rows[3]) = IntV(1)
  /\ RelKey(rows[1]) = IntV(1) /\ RelKey(rows[2]) = IntV(1)
  /\ RelKey(rows[3]) = IntV(2)
  /\ Len(Collection(destType, Dest[1])) = 2

\* the elements of seq at the positions in S, in order
AtPositions(seq, S) == [n \in 1..Cardinality(S) |-> seq[Sorted(S)[n]]]

\* seq without the repetitions of an element after its first occurrence
Distinct(seq) ==
  AtPositions(seq, { i \in 1..Len(seq) : \A j \in 1..(i - 1) : seq[j] # seq[i] })

\* the rows that attach a related entity: some related column is not zero
HasRelated(row) == RowStruct(userT, row) # Zero(userT)
RelatedRows(S) == { i \in S : HasRelated(rows[i]) }

\* the related entities of the rows at the positions S, in row order
RelatedOf(S) ==
  [n \in 1..Cardinality(RelatedRows(S)) |->
     RowStruct(userT, rows[Sorted(RelatedRows(S))[n]])]

\* the positions of the rows that carry the root key of rows[i]
SameRoot(i) == { j \in 1..Len(rows) : RootKey(rows[j]) = RootKey(rows[i]) }

AllRowsOneRoot == \A i \in 1..Len(rows) : RootKey(rows[i]) = RootKey(rows[1])

\* a root key that is a key: not null and of the kind of the key field
ValidRootKey(row) == RootKey(row) # NULL /\ Coercible(UintT, RootKey(row))

\* C3 (refuted by the code): after a successful scan a one-to-many collection
\* holds the distinct related entities of its root in the order of their
\* first appearance, none of them twice.
C3_CollectionDistinctInOrder ==
  ( /\ DoneOk /\ ToMany(destType) /\ columns = AllColumns /\ Len(rows) >= 1
    /\ \A i \in 1..Len(rows) : ValidRootKey(rows[i]) ) =>
     IF op = "ScanMany"
     THEN \A n \in 1..Len(Dest) :
            Collection(destType, Dest[n])
              = Distinct(RelatedOf(SameRoot(Sorted(FirstRows)[n])))
     ELSE AllRowsOneRoot =>
            Collection(destType, Dest) = Distinct(RelatedOf(1..Len(rows)))

\* C4: two rows of the same root with distinct non-null related keys, into a
\* one-to-one field: the scan has ended at the second of them with the
\* too-many-rows error.
C4_OneToOneTwoDistinctFails ==
  (ToOne(destType) /\ columns = AllColumns) =>
     \A i, j \in 1..Len(rows) :
       ( /\ i < j
         /\ RootKey(rows[i]) = RootKey(rows[j])
         /\ RelKey(rows[i]) # NULL /\ RelKey(rows[j]) # NULL
         /\ RelKey(rows[i]) # RelKey(rows[j]) )
       => (pc = "done" /\ err = TooManyRowsUser /\ j = Len(rows))

\* C4 witness: the scan failed on a second row of the same root with another
\* related key
C4_Witness ==
  /\ ToOne(destType) /\ columns = AllColumns /\ Len(rows) = 2
  /\ RootKey(rows[1]) = RootKey(rows[2])
  /\ RelKey(rows[1]) = IntV(1) /\ RelKey(rows[2]) = IntV(2)
  /\ pc = "done" /\ err = TooManyRowsUser

\* C5 (refuted by the code): the too-many-rows error is returned only when an
\* earlier row gave the field a related entity other than the one of the
\* failing row.
C5_TooManyOnlyIfDistinct ==
  ( /\ pc = "done" /\ err = TooManyRowsUser /\ columns = AllColumns
    /\ \A i \in 1..Len(rows) : ValidRootKey(rows[i]) ) =>
     \E i \in 1..(Len(rows) - 1) :
       /\ RelKey(rows[i]) # NULL
       /\ RelKey(rows[i]) # RelKey(rows[Len(rows)])

\* C6: ScanOne on a row source without rows returns ErrNoRows and the
\* destination is still the zero struct.
C6_ScanOneEmptyNoRows ==
  (op = "ScanOne" /\ pc = "done" /\ rows = <<>>) =>
     (err = ErrNoRows /\ Dest = Zero(destType))

\* C6 witness: a ScanOne that ended without having read a row
C6_Witness == op = "ScanOne" /\ pc = "done" /\ rows = <<>> /\ err = ErrNoRows

\* the mapped fields of the destination hold what the only row says
MappedFieldsFromRow ==
  \A i \in 1..NumField(destType) :
    (Fields(destType)[i].primaryKey # "" \/ Fields(destType)[i].db # "")
      => Dest[i] = RowStruct(destType, rows[1])[i]

\* C7 as stated (refuted): one row that has the root key column: no error,
\* non-null columns coerced into their fields, null columns left at default.
C7_SingleRowAsStated ==
  (op = "ScanOne" /\ pc = "done" /\ Len(rows) = 1 /\ KeyColumn(destType) \in columns)
    => (err = "" /\ MappedFieldsFromRow)

\* C7 amended: one row that has the key columns of the root and of the
\* related type, whose non-null values are coercible and not all zero: no
\* error, non-null columns coerced into their fields, null columns left at
\* default.
C7_SingleRowCoercible ==
  ( /\ op = "ScanOne" /\ pc = "done" /\ Len(rows) = 1
    /\ KeyColumn(destType) \in columns
    /\ HasRel(destType) => KeyColumn(userT) \in columns
    /\ WellTyped(destType, rows[1]) /\ WellTyped(userT, rows[1])
    /\ \/ RowStruct(destType, rows[1]) # Zero(destType)
       \/ HasRel(destType) /\ HasRelated(rows[1]) )
    => (err = "" /\ MappedFieldsFromRow)

\* C7 witness: a successful one-row ScanOne with a null name column, the
\* key set and the name left empty
C7_Witness ==
  /\ op = "ScanOne" /\ DoneOk /\ Len(rows) = 1 /\ HasRel(destType)
  /\ columns = AllColumns /\ RootKey(rows[1]) = IntV(1)
  /\ rows[1]["org_name"] = NULL
  /\ Dest[1] = 1 /\ Dest[2] = ""

\* C8: ScanOne, every row has the same valid root key and no related key is
\* on two rows: success, and the one-to-many collection is the list of the
\* related entities of the rows that have one, in row order.
C8_ScanOneAccumulates ==
  ( /\ op = "ScanOne" /\ pc = "done" /\ ToMany(destType) /\ columns = AllColumns
    /\ Len(rows) >= 1 /\ AllRowsOneRoot /\ ValidRootKey(rows[1])
    /\ \A i, j \in 1..Len(rows) :
         (i < j /\ RelKey(rows[i]) # NULL) => RelKey(rows[i]) # RelKey(rows[j]) )
    => /\ err = ""
       /\ Collection(destType, Dest) = RelatedOf(1..Len(rows))
       /\ Len(Collection(destType, Dest)) = Cardinality(RelatedRows(1..Len(rows)))

\* C8 witness: three rows of one root, the second without related entity,
\* two related entities collected
C8_Witness ==
  /\ op = "ScanOne" /\ DoneOk /\ ToMany(destType) /\ Len(rows) = 3
  /\ AllRowsOneRoot /\ RootKey(rows[1]) = IntV(1)
  /\ RelKey(rows[1]) = IntV(2) /\ RelKey(rows[2]) = NULL /\ RelKey(rows[3]) = IntV(1)
  /\ Len(Collection(destType, Dest)) = 2

\* the largest element of a non-empty set of numbers
Max(S) == CHOOSE x \in S : \A y \in S : y <= x

\* C9: every row has a valid root key and only nulls in the related columns:
\* the scan succeeds, the key field is set and the relationship field is at
\* its default (nil slice, zero struct, nil pointer); ScanMany yields exactly
\* the root structs the rows describe.
C9_LeftJoinWithoutMatch ==
  ( /\ pc = "done" /\ HasRel(destType) /\ columns = AllColumns /\ Len(rows) >= 1
    /\ \A i \in 1..Len(rows) :
         /\ ValidRootKey(rows[i])
         /\ rows[i]["user_id"] = NULL /\ rows[i]["user_name"] = NULL )
    => /\ err = ""
       /\ IF op = "ScanOne"
          THEN /\ Dest[KeyIdx(destType)] = Plain(UintT, RootKey(rows[Max(FirstRows)]))
               /\ Dest[RelIdx(destType)] = Zero(RelFieldType(destType))
          ELSE Dest = [n \in 1..Cardinality(FirstRows) |->
                         RowStruct(destType, rows[Sorted(FirstRows)[n]])]

\* C9 witness: a successful scan of one row without related entity
C9_Witness ==
  /\ DoneOk /\ HasRel(destType) /\ Len(rows) = 1
  /\ ValidRootKey(rows[1])
  /\ rows[1]["user_id"] = NULL /\ rows[1]["user_name"] = NULL
  /\ op = "ScanMany" /\ Len(Dest) = 1

\* C10 (refuted by the code): a scan that read rows and returned an error
\* leaves the caller's destination as it was before the call.
C10_ErrorLeavesDestUntouched ==
  (pc = "done" /\ err # "" /\ Len(rows) >= 1) => Dest = InitialDest(op, destType)

\* C11 (refuted by the code): a scan whose row source failed returns the
\* error of the row source.
C11_UpstreamErrorReturned ==
  (pc = "done" /\ rowsErr # "") => err = rowsErr

\* C12: a call that has returned, or ended in a panic, has closed the row
\* cursor, whatever the exit path.
C12_CursorClosedOnReturn == (pc \in {"done", "panic"}) => closed

\* C12 witness: the call returned the error of pgx.RowToMap after one row,
\* with the cursor closed
C12_Witness == pc = "done" /\ err = DecodeError /\ Len(rows) = 1 /\ closed

\* the states in which a call made with a rejected dest must be
Rejected(msg) ==
  /\ pc = "done" /\ err = msg /\ closed
  /\ rows = <<>> /\ rowsErr = "" /\ heap = << Pointee(dest) >>

\* C14: ScanOne given a nil dest, a dest that is not a pointer, a pointer to
\* something that is not a struct, has returned the error of that case
\* without reading a row or writing the destination.
C14_ScanOneArgumentErrors ==
  (op = "ScanOne" /\ pc # "call") =>
     /\ dest.type = NilType => Rejected("dest cannot be nil")
     /\ (dest.type # NilType /\ dest.type.kind # "ptr")
          => Rejected("dest must be a pointer")
     /\ (dest.type.kind = "ptr" /\ dest.type.elem.kind # "struct")
          => Rejected("dest must be a pointer to a struct")

\* C14 witness: ScanOne rejected a pointer to a slice
C14_Witness ==
  /\ op = "ScanOne" /\ dest.type = PtrT(SliceT(userT))
  /\ Rejected("dest must be a pointer to a struct")

\* a non-nil pointer to a slice of structs
ValidManyDest(d) ==
  /\ d.type.kind = "ptr" /\ ~d.nil
  /\ d.type.elem.kind = "slice" /\ d.type.elem.elem.kind = "struct"

\* C15 (refuted by the code): a ScanMany call with a dest that is not a
\* non-nil pointer to a slice of structs ends by returning an argument error,
\* never in a panic.
C15_ScanManyArgumentErrors ==
  (op = "ScanMany" /\ pc \in {"done", "panic"} /\ ~ValidManyDest(dest)) =>
     /\ pc = "done"
     /\ err \in {"dest cannot be nil", "dest must be a pointer", "dest must be a slice"}

NoKeyField == "no key field found in values"

KeyColumnsPresent ==
  /\ KeyColumn(destType) \in columns
  /\ HasRel(destType) => KeyColumn(userT) \in columns

\* C16 as stated (refuted): a row without the key column of the root, or of
\* the related type, ends the scan with "no key field found in values"; when
\* the key columns are there, null or not, that error is never returned.
C16_MissingKeyColumnAsStated ==
  (destType \in RootTypes /\ Len(rows) >= 1) =>
     IF KeyColumnsPresent THEN err # NoKeyField
     ELSE pc = "done" /\ err = NoKeyField /\ Len(rows) = 1

\* C16 amended: a row without the key column of the root ends the scan with
\* "no key field found in values"; so does a row without the key column of
\* the related type, unless a column of the root cannot be coerced, in which
\* case the scan ends with that coercion error; when the key columns are
\* there, null or not, "no key field found in values" is never returned.
C16_MissingKeyColumn ==
  (destType \in RootTypes /\ Len(rows) >= 1) =>
     IF KeyColumnsPresent THEN err # NoKeyField
     ELSE /\ pc = "done" /\ Len(rows) = 1
          /\ IF KeyColumn(destType) \in columns /\ ~WellTyped(destType, rows[1])
             THEN err \notin {"", NoKeyField}
             ELSE err = NoKeyField

\* C16 witness: the scan failed on a row that has the root key but not the
\* column user_id of the related type
C16_Witness ==
  /\ HasRel(destType) /\ destType \in RootTypes
  /\ columns = AllColumns \ {"user_id"} /\ Len(rows) = 1
  /\ rows[1]["org_id"] = IntV(1)
  /\ pc = "done" /\ err = "no key field found in values"

\* C17: the first row scanned into a type with two primary-key fields, or
\* with a relationship to such a type, ends the scan in a panic whose value
\* is the error "multiple primary key fields found" of analyzeEntity.
C17_TwoKeysPanics ==
  (destType \in SchemaErrorTypes) =>
     /\ analyzeEntity(destType, EmptyMap).err = "multiple primary key fields found"
     /\ Len(rows) >= 1
          => (pc = "panic" /\ err = "multiple primary key fields found" /\ Len(rows) = 1)
     /\ pc = "done" => rows = <<>>

\* C17 witness: a scan into the type whose related type has two keys
\* panicked on its first row
C17_Witness ==
  /\ destType = StructT("OrgWithTwoKeys") /\ Len(rows) = 1
  /\ pc = "panic" /\ err = "multiple primary key fields found"

\* the errors of mapToStruct for a column that cannot be coerced
CoercionErrors ==
  { "failed to map column org_id: cannot assign negative value -1 to uint field",
    "failed to map column org_name: type mismatch: expected string, got int" }

\* C18 as stated (refuted): the second of two identical scans in sequence
\* neither changes the registry nor panics, and it returns what the first
\* returned: the same error, the same destination content.
C18_SecondScanSameAsStated ==
  (prior # NoCall) =>
     /\ registry = prior.registry
     /\ pc # "panic"
     /\ pc = "done" => (err = prior.err /\ Dest = prior.result)

\* C18 amended: the second scan neither changes the registry nor panics; it
\* succeeds with the same destination content when the first succeeded; it
\* fails when the first failed, with the same error unless both are
\* coercion errors (of two columns of one row), and ScanMany leaves the
\* same destination.
C18_SecondScanSameResult ==
  (prior # NoCall) =>
     /\ registry = prior.registry
     /\ pc # "panic"
     /\ pc = "done" =>
          IF prior.err = "" THEN err = "" /\ Dest = prior.result
          ELSE /\ err = prior.err \/ {err, prior.err} \subseteq CoercionErrors
               /\ op = "ScanMany" => Dest = prior.result

\* C18 witness: both scans succeeded on two rows of one root with two
\* related entities
C18_Witness ==
  /\ prior # NoCall /\ DoneOk /\ Len(rows) = 2 /\ ToMany(destType)
  /\ columns = AllColumns
  /\ RootKey(rows[1]) = IntV(1) /\ RootKey(rows[2]) = IntV(1)
  /\ RelKey(rows[1]) = IntV(1) /\ RelKey(rows[2]) = IntV(2)
  /\ Dest = prior.result /\ prior.err = ""

RECURSIVE SupportedPair(_, _)
\* the pairs of field type and source value that the coercion rules cover:
\* integer from integer or float, unsigned from integer or unsigned, string
\* from string, boolean from boolean, float from float or integer, time.Time
\* and other structs from a value of their own type, a slice from a value of
\* its element type, a pointer field as its pointee, a pointer source as the
\* value it points to
SupportedPair(ft, v) ==
  IF ft.kind = "ptr" THEN SupportedPair(ft.elem, v)
  ELSE IF v.k = "ptr" THEN SupportedPair(ft, StructV(heap[v.v], v.t))
  ELSE CASE ft.kind = "int" -> v.k \in {"int", "float"}
         [] ft.kind = "uint" -> v.k \in {"int", "uint"}
         [] ft.kind = "string" -> v.k = "str"
         [] ft.kind = "bool" -> v.k = "bool"
         [] ft.kind = "float" -> v.k \in {"float", "int"}
         [] ft.kind = "struct" -> v.k = "struct" /\ v.t = ft
         [] ft.kind = "slice" -> v.k = "struct" /\ v.t = ft.elem

\* C19 (refuted by the code): setFieldValue called with a source value of a
\* kind that the field kind does not take returns an error, does not panic,
\* and leaves the field as it was.
C19_UnsupportedPairIsError ==
  ( /\ pc = "coerced" /\ coercion.value # NULL
    /\ ~SupportedPair(coercion.ftype, coercion.value) )
    => /\ ~coercion.out.panic
       /\ coercion.out.err # ""
       /\ coercion.out.val = coercion.cur

\* the Set calls on key among the goroutines qs
OnKey(qs, key) == { q \in qs : procs[q].key = key }

\* the Set call on key whose Store was the last one
LastStore(key) ==
  CHOOSE q \in OnKey(SetCalls({"done", "returned"}), key) :
    \A r \in OnKey(SetCalls({"done", "returned"}), key) : procs[r].at <= procs[q].at

\* C13: under any interleaving a Get that ran while no Set of its key had
\* been invoked returns (nil, false); a Get that finds the key returns a
\* value of a Set of that key invoked before; a Get invoked after a Set of
\* its key returned finds the key; when all Sets have returned a Get returns
\* the value of the last Store; the registry holds exactly the keys stored.
C13_RegistryLinearizable ==
  (pc = "registry") =>
    /\ \A p \in DOMAIN procs :
         (procs[p].kind = "Get" /\ procs[p].pc \in {"done", "returned"}) =>
            /\ OnKey(procs[p].started, procs[p].key) = {}
                 => procs[p].ret = [info |-> NilInfo, exists |-> FALSE]
            /\ procs[p].ret.exists
                 => \E q \in OnKey(procs[p].started, procs[p].key) :
                      procs[q].value = procs[p].ret.info
            /\ OnKey(procs[p].before, procs[p].key) # {} => procs[p].ret.exists
    /\ DOMAIN registry = { procs[q].key : q \in SetCalls({"done", "returned"}) }
    /\ SetCalls({"ready", "called", "done"}) = {} =>
         \A key \in RegistryKeys :
           GetEntityGraphMappingInfo(registry, key) =
             IF OnKey(SetCalls({"returned"}), key) = {}
             THEN [info |-> NilInfo, exists |-> FALSE]
             ELSE [info |-> procs[LastStore(key)].value, exists |-> TRUE]

\* C13 witness: two Sets of one key with different values have returned,
\* the Get that ran between their Stores returned the first value and the
\* registry holds the second
C13_Witness ==
  /\ pc = "registry"
  /\ \E p, q, g \in DOMAIN procs :
       /\ procs[p].kind = "Set" /\ procs[q].kind = "Set" /\ procs[g].kind = "Get"
       /\ procs[p].key = userT /\ procs[q].key = userT /\ procs[g].key = userT
       /\ procs[p].pc = "returned" /\ procs[q].pc = "returned"
       /\ procs[g].pc = "returned"
       /\ procs[p].at = 1 /\ procs[q].at = 2
       /\ procs[p].value = NilInfo /\ procs[q].value = TestMapping
       /\ procs[g].ret = [info |-> NilInfo, exists |-> TRUE]
       /\ registry[userT] = TestMapping

----------------------------------------------------------------------------
(* C20: a completed descriptor stays in the registry *)

\* C20: once a completed (non-nil) descriptor of a type is stored in the
\* registry, no step of any of the concurrent scans replaces it: the type
\* stays registered with that same descriptor, and in particular the nil
\* placeholder of a concurrent analysis never takes its place
C20_CompletedDescriptorKept ==
  [][\A t \in DOMAIN registry :
       registry[t] # NilInfo =>
         (t \in DOMAIN registry' /\ registry'[t] = registry[t])]_vars

----------------------------------------------------------------------------
(* C21: concurrent scans and the placeholder *)

\* a type whose analysis succeeds: one primary-key field at most in it and in
\* every type its relationship fields reach
WellFormed(t) == analyzeEntity(t, EmptyMap).err = ""

\* the descriptor a scan of t gets when it runs alone on an empty registry
DescriptorAlone(t) == analyzeEntity(t, EmptyMap).reg[t]

\* C21: a scan of a well-formed type that runs concurrently with other
\* scans never ends in a panic (the nil placeholder dereferenced) nor in the
\* error "no mapping info found for entity", and the descriptor it gets is
\* the one it gets when run alone
C21_ConcurrentScanAsAlone ==
  \A p \in DOMAIN procs :
    (pc = "analysis" /\ WellFormed(procs[p].entityType)) =>
      /\ procs[p].pc \notin { "panic", "error" }
      /\ procs[p].pc = "mapped" => procs[p].info = DescriptorAlone(procs[p].entityType)

----------------------------------------------------------------------------
(* C22: the registry after a failed analysis *)

\* goroutine p ended in the panic of analyzeEntityGraphs and no other scan
\* has started yet: what the registry holds is what every later scan finds
FailedBeforeOthers(p) ==
  /\ pc = "analysis"
  /\ procs[p].pc = "panic" /\ procs[p].err = "multiple primary key fields found"
  /\ \A q \in DOMAIN procs \ {p} : procs[q].pc = "lookup"

\* C22: after the analysis of a type failed, a later scan finds no nil
\* placeholder registered as existing, neither for the failing type nor for
\* a type whose analysis was in progress when the failure occurred
C22_NoPlaceholderAfterFailure ==
  \A p \in DOMAIN procs :
    FailedBeforeOthers(p) =>
      \A t \in { userT, StructT("userTwoKeys"), StructT("OrgWithTwoKeys"),
                 StructT("OrgWithUser") } :
        GetEntityGraphMappingInfo(registry, t) # [info |-> NilInfo, exists |-> TRUE]

----------------------------------------------------------------------------
(* C23: the analysis of every relationship graph *)

\* the struct types the relationship fields of the struct type t name
Related(t) ==
  { DeReferencePointer(elementTypeOf(Fields(t)[i].type)) :
      i \in { j \in 1..NumField(t) : Fields(t)[j].relationship # "" } }

RECURSIVE Reachable(_)
\* the struct types reachable from those of the set ts through relationship
\* fields, ts included
Reachable(ts) ==
  IF (UNION { Related(t) : t \in ts }) \subseteq ts THEN ts
  ELSE Reachable(ts \cup UNION { Related(t) : t \in ts })

\* the analysis of a type is not entered again while it is in progress on
\* the same call stack: that is what makes the recursion end on a graph
\* with cycles
AnalysisNotReentered ==
  \A p \in DOMAIN procs :
    \A i, j \in DOMAIN procs[p].stack :
      (/\ i < j
       /\ procs[p].stack[i].at \in { "dummy", "fields" }
       /\ procs[p].stack[j].at \in { "dummy", "fields" })
        => procs[p].stack[i].t # procs[p].stack[j].t

\* analyzeEntity of a type that is registered, with a descriptor or with the
\* placeholder, returns at once and leaves the registry as it was
RegisteredReturnsAtOnce ==
  \A p \in DOMAIN procs :
    (/\ procs[p].pc = "analyze"
     /\ procs[p].stack[Len(procs[p].stack)].at = "get"
     /\ procs[p].stack[Len(procs[p].stack)].t \in DOMAIN registry)
      => /\ registry' = registry
         /\ procs'[p].stack = SubSeq(procs[p].stack, 1, Len(procs[p].stack) - 1)

\* when analyzeEntityGraphs has returned, the type and every type reachable
\* from it have a completed descriptor
AnalysedGraphComplete ==
  \A p \in DOMAIN procs :
    procs[p].pc = "reget" =>
      \A t \in Reachable({ DeReferencePointer(procs[p].entityType) }) :
        t \in DOMAIN registry /\ registry[t] # NilInfo

\* C23: the analysis ends for every relationship graph, with cycles or not
\* and whatever the shape of the relationship fields (no type is analysed
\* again while its analysis is in progress); analysing a registered type
\* returns at once without changing the registry; and after a successful
\* top-level analysis every reachable type has a completed descriptor
C23_AnalysisTerminatesComplete ==
  /\ [](AnalysisNotReentered /\ AnalysedGraphComplete)
  /\ [][RegisteredReturnsAtOnce]_vars

----------------------------------------------------------------------------
(* C24: the recursion of mapToStruct on one row *)

\* C24: materializing a row ends for every type graph, cyclic ones included:
\* no scan runs out of stack in the recursion of mapToStruct through
\* mapRelationships on one row
C24_MaterializationTerminates == pc # "fatal"

----------------------------------------------------------------------------
(* C25: relationships two levels deep *)

\* the roots the scan produced: the destination struct of ScanOne, the
\* elements of the destination collection of ScanMany
ResultRoots ==
  IF op = "ScanOne" THEN { heap[DestAddr] }
  ELSE { heap[DestAddr][i] : i \in DOMAIN heap[DestAddr] }

\* the instance the identity map holds for the child with key field value id
ChildInstance(id) ==
  heap[lookup[StructT("userWithItems")]
         [CHOOSE k \in DOMAIN lookup[StructT("userWithItems")] : k # NULL /\ k.v = id]]

\* the rows of a join: no (root, child, grandchild) combination twice
JoinRows == \A i, j \in DOMAIN rows : i # j => rows[i] # rows[j]

\* C25: after a successful scan of the rows of a join over the chain
\* root -> child -> grandchild, the child collection of every root holds each
\* distinct child once, and each child in it is the child as the identity
\* map holds it at the end of the scan, with the grandchildren of all rows
C25_ChainDepthIndependent ==
  (DoneOk /\ destType = ChainRoot /\ JoinRows) =>
    \A root \in ResultRoots :
      /\ \A i, j \in DOMAIN root[3] : i # j => root[3][i][1] # root[3][j][1]
      /\ \A i \in DOMAIN root[3] : root[3][i] = ChildInstance(root[3][i][1])

----------------------------------------------------------------------------
(* C26: a row whose key is in the identity map *)

\* the positions of the fields of t that a column maps to
MappedIdx(t) ==
  { i \in 1..NumField(t) : Fields(t)[i].primaryKey # "" \/ Fields(t)[i].db # "" }

\* the first of the rows read that carries the key value k of type t
FirstRowWith(t, k) ==
  rows[CHOOSE j \in DOMAIN rows :
         /\ rows[j][KeyColumn(t)] = k
         /\ \A n \in 1..(j - 1) : rows[n][KeyColumn(t)] # k]

\* the step materialized one more row without error
RowMaterialized == rows' # rows /\ err' = "" /\ pc' = "loop"

\* the types and key values (t, k) of the row just read that the identity
\* map held before the step
KnownKeys ==
  { tk \in { << t, rows'[Len(rows')][KeyColumn(t)] >> :
               t \in { u \in DOMAIN lookup : KeyColumn(u) \in columns } } :
      tk[2] \in DOMAIN lookup[tk[1]] }

\* the instance of a key that was in the identity map is reused: the entry
\* refers to the same instance and its column-mapped fields do not change
KnownInstanceReused ==
  RowMaterialized =>
    \A tk \in KnownKeys :
      /\ lookup'[tk[1]][tk[2]] = lookup[tk[1]][tk[2]]
      /\ \A i \in MappedIdx(tk[1]) :
           heap'[lookup[tk[1]][tk[2]]][i] = heap[lookup[tk[1]][tk[2]]][i]

\* the column-mapped fields of that instance are those of the first row
\* that carried the key
KnownInstanceFirstRow ==
  RowMaterialized =>
    \A tk \in KnownKeys :
      \A i \in MappedIdx(tk[1]) :
        heap'[lookup[tk[1]][tk[2]]][i] = RowStruct(tk[1], FirstRowWith(tk[1], tk[2]))[i]

\* C26: when a row carries a (type, key) that the identity map holds, the
\* instance is reused: the entry still refers to it, its column-mapped
\* fields are left unchanged by the row, and they are the values of the
\* first row that carried the key
C26_KnownKeyReused ==
  [][KnownInstanceReused /\ KnownInstanceFirstRow]_vars

----------------------------------------------------------------------------
(* C27: ScanOne over rows of several roots *)

\* the rows carry two root keys or more
SeveralRoots == \E i, j \in DOMAIN rows : RootKey(rows[i]) # RootKey(rows[j])

\* every row can be materialized: the key columns are there and the values
\* fit their fields
RowsMaterializable ==
  /\ KeyColumnsPresent
  /\ \A i \in DOMAIN rows :
       /\ WellTyped(destType, rows[i])
       /\ HasRel(destType) => WellTyped(userT, rows[i])

\* no one-to-one field receives a second related entity
OneToOneKept ==
  (HasRel(destType) /\ ToOne(destType)) => Cardinality(RelatedRows(DOMAIN rows)) <= 1

----------------------------------------------------------------------------
(* C28: ErrNoRows *)

\* ScanOne has returned from the test that follows the loop
ReturnedAfterLoop == op = "ScanOne" /\ pc = "done" /\ err \in {"", ErrNoRows}

\* ErrNoRows is returned exactly when the destination is zero
NoRowsIffZero == ReturnedAfterLoop => (err = ErrNoRows <=> IsZero(destType, Dest))

\* the columns of the root of rows[i] are all null
RootColumnsNull(i) ==
  \A j \in MappedIdx(destType) :
    LET f == Fields(destType)[j]
        c == IF f.primaryKey # "" THEN f.primaryKey ELSE f.db
    IN c \in columns => rows[i][c] = NULL

\* rows were read and their root columns are all null
NullRoots == rows # <<>> /\ \A i \in DOMAIN rows : RootColumnsNull(i)

\* an empty result scanned into a destination that was not zero is a success
EmptyIntoNonZero ==
  (ReturnedAfterLoop /\ rows = <<>> /\ ~IsZero(destType, dest.held)) => err = ""

\* C28 as stated (refuted): after the rows are consumed without error ScanOne
\* returns ErrNoRows if and only if the destination is zero; a non-empty
\* result whose root columns are all null, scanned into a zero destination,
\* returns ErrNoRows; an empty result scanned into a non-zero destination
\* returns success
C28_NoRowsAsStated ==
  /\ NoRowsIffZero
  /\ (ReturnedAfterLoop /\ NullRoots /\ IsZero(destType, dest.held)) => err = ErrNoRows
  /\ EmptyIntoNonZero

\* no row read carries a related entity
NoneRelated ==
  HasRel(destType) =>
    \A i \in DOMAIN rows : \A c \in UserColumns \cap columns : rows[i][c] = NULL

\* C28 amended: as C28, where the non-empty result with null root columns
\* returns ErrNoRows when the destination was zero at the call and no row
\* carries a related entity, and success otherwise
C28_NoRowsAmended ==
  /\ NoRowsIffZero
  /\ (ReturnedAfterLoop /\ NullRoots) =>
       (err = ErrNoRows <=> (IsZero(destType, dest.held) /\ NoneRelated))
  /\ EmptyIntoNonZero

\* C28 witness: ScanOne has read two rows of null columns into a zero
\* destination and returned ErrNoRows
C28_Witness ==
  /\ op = "ScanOne" /\ pc = "done" /\ err = ErrNoRows /\ closed
  /\ destType = StructT("OrgWithManyUsers") /\ columns = AllColumns
  /\ Len(rows) = 2 /\ NullRoots /\ NoneRelated
  /\ IsZero(destType, dest.held)

----------------------------------------------------------------------------
(* C29: relationship fields declared through a pointer *)

\* the value behind a field of type ft: the pointee of a pointer (the zero
\* value for nil), the value itself otherwise
Behind(ft, val) ==
  IF ft.kind = "ptr" THEN (IF val = <<>> THEN Zero(ft.elem) ELSE val[1]) ELSE val

\* the struct obj of type t with every field replaced by the value behind it
StructBehind(t, obj) == [i \in 1..NumField(t) |-> Behind(Fields(t)[i].type, obj[i])]

\* what the scan left behind dest, up to the pointer indirection of fields
ResultBehind ==
  IF op = "ScanOne" THEN StructBehind(destType, Dest)
  ELSE [n \in DOMAIN Dest |-> StructBehind(destType, Dest[n])]

\* the scan into the pointer form has ended
PointerFormEnded == prior # NoCall /\ pc \in {"done", "panic"}

\* C29: a scan into the type whose relationship field is *user or *[]user
\* ends as the scan of the same rows into the type whose field is user or
\* []user: both return or both panic, with the same error (one of the
\* coercion errors of the same row when the row has two columns that cannot
\* be coerced), and after a success the destinations hold the same
\* contents up to the pointer indirection
C29_PointerFieldAsValueField ==
  PointerFormEnded =>
     /\ pc = prior.pc
     /\ err = prior.err \/ {err, prior.err} \subseteq CoercionErrors
     /\ err = "" => ResultBehind = prior.result

\* C29 witness: both scans succeeded on two rows of one root with two
\* related entities, and the pointer field refers to the same collection
C29_Witness ==
  /\ PointerFormEnded /\ DoneOk /\ op = "ScanOne"
  /\ destType = StructT("OrgWithUsersSlicePointer")
  /\ Len(rows) = 2 /\ columns = AllColumns
  /\ RootKey(rows[1]) = IntV(1) /\ RootKey(rows[2]) = IntV(1)
  /\ RelKey(rows[1]) = IntV(1) /\ RelKey(rows[2]) = IntV(2)
  /\ prior.err = "" /\ Len(prior.result[3]) = 2
  /\ Dest[3] = << prior.result[3] >>

====
